---- MODULE Spec2Model ----
(***************************************************************************)
(* Rule-based resume parser of src/src/utils/contentParser.js:             *)
(* parseResumeContent and the extractors it calls (extractContactInfo,     *)
(* extractSections, extractWorkExperience, extractEducation,               *)
(* extractSkills, isDate, isSectionHeader).                                *)
(*                                                                         *)
(* Lines are strings.  TLC strings are ASCII, so the non-ASCII glyphs the  *)
(* source mentions are written with these one-character stand-ins:         *)
(*     "~"  U+2022 bullet              "#"  U+2013 en dash                 *)
(*     "^"  U+00B7 middle dot          "$"  U+2E3B three-em dash           *)
(*     "!"  U+1F4CD round pushpin      "&"  U+2014 em dash                 *)
(* A regular expression is a sequence of items (a character class, a       *)
(* group of alternatives, or a word boundary), each with a repetition      *)
(* range, and is matched the way RegExp matches it.                        *)
(***************************************************************************)
EXTENDS Integers, Sequences, FiniteSets, TLC

\* null where the source holds a string or null
NULL == "null"

\* null where the source holds an object or null
NullRef == [null |-> TRUE]

Inf == 99

Min(a, b) == IF a < b THEN a ELSE b

Max(a, b) == IF a > b THEN a ELSE b

SetMax(S) == CHOOSE m \in S : \A x \in S : x <= m

SetMin(S) == CHOOSE m \in S : \A x \in S : m <= x

(* ---------------------------- strings ---------------------------------- *)

CharAt(s, q) == SubSeq(s, q, q)

LowerAlpha == "abcdefghijklmnopqrstuvwxyz"

UpperAlpha == "ABCDEFGHIJKLMNOPQRSTUVWXYZ"

Digits == {"0", "1", "2", "3", "4", "5", "6", "7", "8", "9"}

Lowers == {CharAt(LowerAlpha, k) : k \in 1..26}

Uppers == {CharAt(UpperAlpha, k) : k \in 1..26}

WS == {" ", "\t", "\n"}

WordChars == Lowers \cup Uppers \cup Digits \cup {"_"}

BothCases(c) ==
  IF c \in Lowers \cup Uppers
  THEN LET k == CHOOSE n \in 1..26 : CharAt(LowerAlpha, n) = c \/ CharAt(UpperAlpha, n) = c
       IN {CharAt(LowerAlpha, k), CharAt(UpperAlpha, k)}
  ELSE {c}

RECURSIVE LeadWS(_, _)
LeadWS(s, n) == IF n < Len(s) /\ CharAt(s, n + 1) \in WS THEN LeadWS(s, n + 1) ELSE n

RECURSIVE TrailWS(_, _)
TrailWS(s, n) == IF n < Len(s) /\ CharAt(s, Len(s) - n) \in WS THEN TrailWS(s, n + 1) ELSE n

Trim(s) ==
  LET a == LeadWS(s, 0)
  IN IF a = Len(s) THEN "" ELSE SubSeq(s, a + 1, Len(s) - TrailWS(s, 0))

StartsWith(s, p) == Len(s) >= Len(p) /\ SubSeq(s, 1, Len(p)) = p

Includes(s, p) == \E q \in 1..(Len(s) - Len(p) + 1) : SubSeq(s, q, q + Len(p) - 1) = p

IndexOf(s, p) ==
  IF Includes(s, p)
  THEN SetMin({q \in 1..(Len(s) - Len(p) + 1) : SubSeq(s, q, q + Len(p) - 1) = p})
  ELSE 0

RECURSIVE JoinWith(_, _)
JoinWith(ss, sep) ==
  IF ss = <<>> THEN ""
  ELSE IF Len(ss) = 1 THEN ss[1]
  ELSE ss[1] \o sep \o JoinWith(Tail(ss), sep)

RECURSIVE SplitOn(_, _, _)
SplitOn(s, sep, from) ==
  LET rest == SubSeq(s, from, Len(s))
      k    == IndexOf(rest, sep)
  IN IF k = 0 THEN <<rest>>
     ELSE <<SubSeq(rest, 1, k - 1)>> \o SplitOn(s, sep, from + k - 1 + Len(sep))

\* String.prototype.split(sep) for a non-empty separator string
Split(s, sep) == SplitOn(s, sep, 1)

FilterNonEmpty(ss) == SelectSeq(ss, LAMBDA x : x # "")

MapTrim(ss) == [k \in DOMAIN ss |-> Trim(ss[k])]

(* ------------------------ regular expressions -------------------------- *)

Cls(cs, lo, hi) == [k |-> "c", cs |-> cs, neg |-> FALSE, min |-> lo, max |-> hi]

NotCls(cs, lo, hi) == [k |-> "c", cs |-> cs, neg |-> TRUE, min |-> lo, max |-> hi]

Grp(alts, lo, hi) == [k |-> "g", alts |-> alts, min |-> lo, max |-> hi]

WordB == [k |-> "b"]

Ch(c) == Cls({c}, 1, 1)

Lit(w) == <<>> \o [n \in 1..Len(w) |-> Cls({CharAt(w, n)}, 1, 1)]

LitI(w) == <<>> \o [n \in 1..Len(w) |-> Cls(BothCases(CharAt(w, n)), 1, 1)]

RECURSIVE PhraseI(_)
PhraseI(ws) ==
  IF Len(ws) = 1 THEN LitI(ws[1])
  ELSE LitI(ws[1]) \o <<Cls(WS, 1, Inf)>> \o PhraseI(Tail(ws))

InCls(it, c) == (c \in it.cs) # it.neg

RECURSIVE Run(_, _, _, _)
Run(it, s, q, n) ==
  IF n < it.max /\ q + n <= Len(s) /\ InCls(it, CharAt(s, q + n))
  THEN Run(it, s, q, n + 1)
  ELSE n

IsWordAt(s, q) == q >= 1 /\ q <= Len(s) /\ CharAt(s, q) \in WordChars

RECURSIVE PatEnds(_, _, _)
RECURSIVE ItemEnds(_, _, _)
RECURSIVE RepEnds(_, _, _, _)
PatEnds(pat, s, starts) ==
  IF pat = <<>> \/ starts = {} THEN starts
  ELSE PatEnds(Tail(pat), s, UNION {ItemEnds(Head(pat), s, q) : q \in starts})

ItemEnds(it, s, q) ==
  IF it.k = "c" THEN {q + n : n \in it.min..Run(it, s, q, 0)}
  ELSE IF it.k = "b" THEN (IF IsWordAt(s, q - 1) # IsWordAt(s, q) THEN {q} ELSE {})
  ELSE RepEnds(it, s, {q}, 0)

RepEnds(it, s, cur, n) ==
  (IF n >= it.min THEN cur ELSE {})
  \cup (IF n < it.max /\ cur # {}
        THEN RepEnds(it, s,
                     UNION {PatEnds(it.alts[a], s, {q}) \ {q} : a \in DOMAIN it.alts, q \in cur},
                     n + 1)
        ELSE {})

\* RegExp.prototype.test for an unanchored expression given as a sequence of alternatives
Test(alts, s) ==
  \E a \in DOMAIN alts : \E q \in 1..(Len(s) + 1) : PatEnds(alts[a], s, {q}) # {}

\* test for an expression anchored at the start: /^.../
TestStart(alts, s) == \E a \in DOMAIN alts : PatEnds(alts[a], s, {1}) # {}

\* test for an expression anchored at both ends: /^(...)$/
TestFull(alts, s) == \E a \in DOMAIN alts : (Len(s) + 1) \in PatEnds(alts[a], s, {1})

\* String.prototype.match without the g flag: the leftmost match, as the pair of
\* its first position and the position after its last; NullRef when there is none.
\* At one start the first alternative that matches wins and repetition is greedy.
Match(alts, s) ==
  LET starts == {q \in 1..(Len(s) + 1) : \E a \in DOMAIN alts : PatEnds(alts[a], s, {q}) # {}}
  IN IF starts = {} THEN NullRef
     ELSE LET q == SetMin(starts)
              a == SetMin({b \in DOMAIN alts : PatEnds(alts[b], s, {q}) # {}})
          IN [from |-> q, to |-> SetMax(PatEnds(alts[a], s, {q}))]

MatchText(s, m) == SubSeq(s, m.from, m.to - 1)

\* String.prototype.replace(re, '') for a match m of s
RemoveMatch(s, m) == SubSeq(s, 1, m.from - 1) \o SubSeq(s, m.to, Len(s))

(* ------------------------- the source's patterns ----------------------- *)

Dash == {"-", "#"}

Year == Cls(Digits, 4, 4)

Months == <<LitI("Jan"), LitI("Feb"), LitI("Mar"), LitI("Apr"), LitI("May"), LitI("Jun"),
            LitI("Jul"), LitI("Aug"), LitI("Sep"), LitI("Oct"), LitI("Nov"), LitI("Dec")>>

YearRange == <<Year, Cls(WS, 0, Inf), Cls(Dash, 1, 1), Cls(WS, 0, Inf), Year>>

YearPresent == <<Year, Cls(WS, 0, Inf), Cls(Dash, 1, 1), Cls(WS, 0, Inf)>> \o LitI("Present")

\* /\d{4}\s*[-–]\s*\d{4}|\d{4}\s*[-–]\s*Present/i
DateRangeRe == <<YearRange, YearPresent>>

datePatterns ==
  << YearRange,
     YearPresent,
     <<Grp(Months, 1, 1), Cls(Lowers \cup Uppers, 0, Inf), Cls(WS, 1, Inf), Year>>,
     <<Cls(Digits, 1, 2), Ch("/"), Year>> >>

isDate(t) == Test(datePatterns, t)

sectionHeaderPatterns ==
           << PhraseI(<<"work", "experience">>), LitI("experience"), LitI("employment"),
              PhraseI(<<"professional", "experience">>), PhraseI(<<"career", "history">>),
              LitI("skills"), PhraseI(<<"technical", "skills">>),
              PhraseI(<<"core", "competencies">>), LitI("competencies"),
              PhraseI(<<"key", "skills">>), PhraseI(<<"core", "skills">>),
              LitI("education"), PhraseI(<<"academic", "background">>), LitI("qualifications"),
              PhraseI(<<"personal", "statement">>), LitI("summary"),
              PhraseI(<<"professional", "summary">>), LitI("about"), LitI("profile"),
              LitI("objective"),
              LitI("projects"), LitI("prototypes"), LitI("certifications"), LitI("awards") >>

isSectionHeader(line) == TestFull(sectionHeaderPatterns, line)

\* sectionPatterns of extractSections, in the order of Object.entries
sectionKeys == <<"personalStatement", "workExperience", "skills", "education">>

sectionPatterns ==
  [ personalStatement |->
      << PhraseI(<<"personal", "statement">>), LitI("summary"),
         PhraseI(<<"professional", "summary">>), LitI("about"), LitI("profile"),
         LitI("objective"), PhraseI(<<"executive", "summary">>),
         PhraseI(<<"summary", "of", "qualifications">>), PhraseI(<<"career", "summary">>),
         LitI("overview") >>,
    workExperience |->
      << PhraseI(<<"work", "experience">>), LitI("experience"), LitI("employment"),
         PhraseI(<<"professional", "experience">>), PhraseI(<<"career", "history">>),
         PhraseI(<<"work", "history">>), PhraseI(<<"employment", "history">>) >>,
    skills |->
      << LitI("skills"), PhraseI(<<"technical", "skills">>),
         PhraseI(<<"core", "competencies">>), LitI("competencies"),
         PhraseI(<<"key", "skills">>), PhraseI(<<"core", "skills">>),
         PhraseI(<<"technical", "proficiencies">>) >>,
    education |->
      << LitI("education"), PhraseI(<<"academic", "background">>), LitI("qualifications"),
         LitI("academic") >> ]

\* the first key of sectionPatterns whose pattern the line matches, or NULL
MatchedSectionKey(trimmedLine) ==
  LET ks == {k \in 1..4 : TestFull(sectionPatterns[sectionKeys[k]], trimmedLine)}
  IN IF ks = {} THEN NULL ELSE sectionKeys[SetMin(ks)]

\* /^[⸻\-_=]+$/
DividerRe == << <<Cls({"$", "-", "_", "="}, 1, Inf)>> >>

isDivider(trimmedLine) == TestFull(DividerRe, trimmedLine)

BulletGlyphs == {"~", "-", "*"}

\* /\d+[\.\)]/
NumberedRe == <<Cls(Digits, 1, Inf), Cls({".", ")"}, 1, 1)>>

\* /\d{3}[-.\s]?\d{3}[-.\s]?\d{4}/
PhoneLikeRe ==
  <<Cls(Digits, 3, 3), Cls({"-", "."} \cup WS, 0, 1), Cls(Digits, 3, 3),
    Cls({"-", "."} \cup WS, 0, 1), Cls(Digits, 4, 4)>>

\* /([A-Z][a-z]+(?:\s+[A-Z][a-z]+)*),\s*[A-Z]{2}/
CityStateRe ==
  <<Cls(Uppers, 1, 1), Cls(Lowers, 1, Inf),
    Grp(<< <<Cls(WS, 1, Inf), Cls(Uppers, 1, 1), Cls(Lowers, 1, Inf)>> >>, 0, Inf),
    Ch(","), Cls(WS, 0, Inf), Cls(Uppers, 2, 2)>>

\* /([A-Z][a-z]+(?:\s+[A-Z][a-z]+)*),\s*([A-Z][a-z]+)/
CityCountryRe ==
  <<Cls(Uppers, 1, 1), Cls(Lowers, 1, Inf),
    Grp(<< <<Cls(WS, 1, Inf), Cls(Uppers, 1, 1), Cls(Lowers, 1, Inf)>> >>, 0, Inf),
    Ch(","), Cls(WS, 0, Inf), Cls(Uppers, 1, 1), Cls(Lowers, 1, Inf)>>

(* ------------------------------- state --------------------------------- *)

VARIABLES
  resumeText,       \* the argument, as resumeText.split('\n'): the original lines
  openAIApiKey,     \* the second argument, NULL when not given
  ai,               \* history: whether parseResumeContentWithAI was called by this
                    \* invocation, and how the call ended: "no", "threw" or "returned"
  pc,               \* the statement parseResumeContent is about to execute
  contactInfo,      \* extractContactInfo's record
  headerEndIndex,   \* extractSections: last index of the header region
  i,                \* the index of the loop that is running (0-based, as in the source)
  currentSection,   \* extractSections: key of the open block, or NULL
  sectionContent,   \* extractSections: lines of the open block
  sections,         \* extractSections: the map it returns
  sectionIndex,     \* forEach index over the work-experience / education blocks
  experiences,      \* extractWorkExperience: the list it returns
  currentExp,       \* extractWorkExperience: the open Experience, or NullRef
  currentBullets,   \* extractWorkExperience: bullets collected for currentExp
  educations,       \* extractEducation: the list it returns
  result,           \* the record parseResumeContent returns, or NullRef
  src,              \* ghost: for contact, summary, skills and other, the indices of
                    \* the lines of resumeText stored there
  calls,            \* history: the number of invocations that have returned
  returned          \* history: the pairs <<text, record>> of those invocations

vars == <<resumeText, openAIApiKey, ai, pc, contactInfo, headerEndIndex, i, currentSection, sectionContent,
          sections, sectionIndex, experiences, currentExp, currentBullets, educations,
          result, src, calls, returned>>

\* ghost: no line has been stored yet
NoLines == [contact |-> {}, summary |-> {}, skills |-> {}, other |-> {}]

\* A raw block (a '\n'-joined string in the source) is kept as the sequence of its
\* lines; a line of a block is [s |-> the original line, n |-> its index in
\* originalLines], n being a ghost.
Located(s, n) == [s |-> s, n |-> n]

originalLines == resumeText

trimmedLines == MapTrim(resumeText)

\* !resumeText || !resumeText.trim()
IsEmptyText == \A k \in DOMAIN resumeText : Trim(resumeText[k]) = ""

(* ------------------------- extractContactInfo -------------------------- *)

EmailRe ==
  << <<WordB, Cls(Lowers \cup Uppers \cup Digits \cup {".", "_", "%", "+", "-"}, 1, Inf),
       Ch("@"), Cls(Lowers \cup Uppers \cup Digits \cup {".", "-"}, 1, Inf), Ch("."),
       Cls(Lowers \cup Uppers \cup {"|"}, 2, Inf), WordB>> >>

Sep == Cls({"-", "."} \cup WS, 0, 1)

phonePatterns ==
  << <<Cls({"+"}, 0, 1), Cls(Digits, 1, 3), Sep, Cls({"("}, 0, 1), Cls(Digits, 3, 3),
       Cls({")"}, 0, 1), Sep, Cls(Digits, 3, 3), Sep, Cls(Digits, 4, 4)>>,
     <<Cls({"+"}, 0, 1), Cls(Digits, 1, 3), Sep, Cls(Digits, 3, 3), Sep, Cls(Digits, 3, 3),
       Sep, Cls(Digits, 4, 4)>>,
     <<Ch("("), Cls(Digits, 3, 3), Ch(")"), Cls(WS, 0, 1), Cls(Digits, 3, 3), Sep,
       Cls(Digits, 4, 4)>> >>

UrlRe ==
  << LitI("http") \o <<Cls({"s", "S"}, 0, 1)>> \o Lit("://") \o <<NotCls(WS, 1, Inf)>>,
     LitI("www") \o <<Ch("."), NotCls(WS, 1, Inf)>> >>

locationPatterns == <<CityStateRe, CityCountryRe>>

\* for (const pattern of patterns) { match = text.match(pattern); if (match) ... break }
FirstPatternMatch(patterns, text) ==
  LET ks == {k \in DOMAIN patterns : Test(<<patterns[k]>>, text)}
  IN IF ks = {} THEN NullRef ELSE Match(<<patterns[SetMin(ks)]>>, text)

\* indices (into originalLines) of the non-blank lines, in order
RECURSIVE NonBlankIdx(_, _)
NonBlankIdx(ls, k) ==
  IF k > Len(ls) THEN <<>>
  ELSE (IF Trim(ls[k]) # "" THEN <<k - 1>> ELSE <<>>) \o NonBlankIdx(ls, k + 1)

ContactMatches(lines) ==
  LET headerLines == JoinWith(SubSeq(lines, 1, Min(5, Len(lines))), " ")
  IN [ text     |-> headerLines,
       email    |-> Match(EmailRe, headerLines),
       phone    |-> FirstPatternMatch(phonePatterns, headerLines),
       website  |-> Match(UrlRe, headerLines),
       location |-> FirstPatternMatch(locationPatterns, headerLines) ]

extractContactInfo(lines) ==
  LET c == ContactMatches(lines)
      F(m) == IF m = NullRef THEN NULL ELSE MatchText(c.text, m)
  IN [ name     |-> IF Len(lines) > 0 THEN lines[1] ELSE NULL,
       email    |-> F(c.email),
       phone    |-> F(c.phone),
       location |-> F(c.location),
       website  |-> F(c.website) ]

\* ghost: which of the first five non-blank lines a contact field was read from
ContactSrc(ls) ==
  LET idx   == NonBlankIdx(ls, 1)
      lines == [k \in DOMAIN idx |-> Trim(ls[idx[k] + 1])]
      n     == Min(5, Len(lines))
      c     == ContactMatches(lines)
      first(k) == 1 + (IF k = 1 THEN 0 ELSE Len(JoinWith(SubSeq(lines, 1, k - 1), " ")) + 1)
      last(k)  == first(k) + Len(lines[k]) - 1
      hit(m, k) == m # NullRef /\ m.from <= last(k) /\ m.to - 1 >= first(k)
  IN {idx[k] : k \in {j \in 1..n : j = 1 \/ hit(c.email, j) \/ hit(c.phone, j)
                                       \/ hit(c.website, j) \/ hit(c.location, j)}}

(* --------------------------- extractSections --------------------------- *)

\* /^[A-Z\s\-]+$/
CapsLineRe == << <<Cls(Uppers \cup WS \cup {"-"}, 1, Inf)>> >>

\* /^[A-Z][a-z]+/
MixedCaseRe == << <<Cls(Uppers, 1, 1), Cls(Lowers, 1, Inf)>> >>

looksLikeSectionHeader(line) ==
  /\ line # ""
  /\ Len(line) < 50
  /\ Len(line) > 3
  /\ TestFull(CapsLineRe, line)
  /\ ~Includes(line, "@")
  /\ ~Test(<<PhoneLikeRe>>, line)
  /\ ~TestStart(MixedCaseRe, line)

\* the loop "for (let i = 0; i < Math.min(8, trimmedLines.length); i++)"
HeaderEndIndex(tl) ==
  LET n  == Min(8, Len(tl))
      bs == {k \in 0..(n - 1) : looksLikeSectionHeader(tl[k + 1])
                                /\ ~TestFull(sectionPatterns.personalStatement, tl[k + 1])}
  IN IF bs = {} THEN Max(n - 1, 0)
     ELSE Max(SetMin(bs) - 1, 0)

Strings(content) == [k \in DOMAIN content |-> content[k].s]

Indices(content) == {content[k].n : k \in DOMAIN content}

\* "Save previous section content" / "Save last section"
SaveSection(secs, cur, content) ==
  IF cur # NULL /\ Len(content) > 0
  THEN IF cur \in {"workExperience", "education"}
       THEN [secs EXCEPT ![cur] = Append(@, content)]
       ELSE LET text == Trim(JoinWith(Strings(content), "\n"))
            IN IF Len(text) > 0 THEN [secs EXCEPT ![cur] = text] ELSE secs
  ELSE secs

\* ghost counterpart of SaveSection for the single-block keys
SaveSrc(g, cur, content) ==
  IF cur \in {"personalStatement", "skills"} /\ Len(content) > 0
     /\ Len(Trim(JoinWith(Strings(content), "\n"))) > 0
  THEN IF cur = "skills" THEN [g EXCEPT !.skills = Indices(content)]
       ELSE [g EXCEPT !.summary = Indices(content)]
  ELSE g

SummaryWindow == 30

MinSummaryLen == 8

\* openAIApiKey && openAIApiKey.trim() (line 188)
keyGiven(key) == key # NULL /\ Trim(key) # ""

\* x || '' and x || null
OrElse(x, d) == IF x = NULL \/ x = "" THEN d ELSE x

\* What JSON.parse(content) gives, lines 104-119.  A property that is missing, or
\* that is no object or array, is <<>>, and one that is there is <<its value>>.
AIData ==
  { [contactInfo |-> <<>>, personalStatement |-> NULL, workExperience |-> <<>>,
     education |-> <<>>, skills |-> NULL],
    [contactInfo |-> << [name |-> "John Doe", email |-> NULL, phone |-> NULL,
                         location |-> NULL, website |-> NULL] >>,
     personalStatement |-> "Seasoned engineer",
     workExperience |-> << << [company |-> "Acme", title |-> NULL, date |-> "",
                               location |-> NULL, bullets |-> << <<"Built X", "  ", NULL>> >>],
                              [company |-> NULL, title |-> "Dev", date |-> "2020", 
                               location |-> "Remote", bullets |-> <<>>] >> >>,
     education |-> << << [school |-> "MIT", degree |-> NULL, date |-> NULL, gpa |-> NULL,
                          certificate |-> ""] >> >>,
     skills |-> "JS, Python"] }

\* lines 122-152: the record parseResumeContentWithAI returns for parsedData
AIResult(parsedData, text) ==
  LET exps == IF parsedData.workExperience = <<>> THEN <<>> ELSE parsedData.workExperience[1]
      edus == IF parsedData.education = <<>> THEN <<>> ELSE parsedData.education[1]
  IN [ success           |-> TRUE,
       contactInfo       |-> IF parsedData.contactInfo = <<>>
                             THEN [name |-> NULL, email |-> NULL, phone |-> NULL,
                                   location |-> NULL, website |-> NULL]
                             ELSE parsedData.contactInfo[1],
       personalStatement |-> OrElse(parsedData.personalStatement, NULL),
       workExperience    |->
         [k \in DOMAIN exps |->
            [company  |-> OrElse(exps[k].company, ""),
             title    |-> OrElse(exps[k].title, ""),
             date     |-> OrElse(exps[k].date, ""),
             location |-> OrElse(exps[k].location, ""),
             bullets  |-> IF exps[k].bullets = <<>> THEN <<>>
                          ELSE SelectSeq(exps[k].bullets[1],
                                         LAMBDA b : b # NULL /\ Trim(b) # "")]],
       education         |->
         [k \in DOMAIN edus |->
            [school      |-> OrElse(edus[k].school, ""),
             degree      |-> OrElse(edus[k].degree, ""),
             date        |-> OrElse(edus[k].date, ""),
             gpa         |-> OrElse(edus[k].gpa, ""),
             certificate |-> OrElse(edus[k].certificate, NULL)]],
       skills            |-> OrElse(parsedData.skills, ""),
       rawText           |-> text ]

\* How a call of parseResumeContentWithAI may end (lines 14-166): with an error
\* thrown (no key, the request, the status, the content or its JSON), or with the
\* record of some reply.  Without a key parseResumeContent makes no call.
AIOutcomes(key) ==
  IF keyGiven(key)
  THEN {[kind |-> "threw", data |-> NullRef]}
       \cup {[kind |-> "returned", data |-> d] : d \in AIData}
  ELSE {[kind |-> "no", data |-> NullRef]}

\* AIAttempt with the catch of lines 196-199 handing the error on
AIAttemptUncaught(outcome, text) ==
  IF outcome.kind = "returned" THEN AIResult(outcome.data, text)
  ELSE IF outcome.kind = "threw"
  THEN [error |-> "Failed to parse resume content: OpenAI API error", success |-> FALSE]
  ELSE NullRef

\* lines 188-199: the record to return at once, or NullRef to go on with the rules
AIAttempt(outcome, text) ==
  IF outcome.kind = "returned" THEN AIResult(outcome.data, text) ELSE NullRef

\* parseResumeContent, lines 181-185 and 206-213
Parse ==
  /\ pc = "parse"
  /\ IF IsEmptyText
     THEN /\ result' = [error |-> "Resume text is empty"]
          /\ pc' = "done"
          /\ UNCHANGED <<contactInfo, src, ai>>
     ELSE \E outcome \in AIOutcomes(openAIApiKey) :
            /\ ai' = outcome.kind
            /\ IF AIAttempt(outcome, resumeText) # NullRef
               THEN /\ result' = AIAttempt(outcome, resumeText)
                    /\ pc' = "done"
                    /\ UNCHANGED <<contactInfo, src>>
               ELSE /\ contactInfo' = extractContactInfo(FilterNonEmpty(trimmedLines))
                    /\ src' = [src EXCEPT !.contact = ContactSrc(resumeText)]
                    /\ pc' = "header"
                    /\ UNCHANGED result
  /\ UNCHANGED <<openAIApiKey, calls, returned, resumeText, headerEndIndex, i, currentSection,
                 sectionContent, sections, sectionIndex, experiences, currentExp,
                 currentBullets, educations>>

\* extractSections, lines 323-368: initialisation and the header-region scan
HeaderScan ==
  /\ pc = "header"
  /\ sections' = [personalStatement |-> NULL, workExperience |-> <<>>, skills |-> NULL,
                  education |-> <<>>, other |-> <<>>]
  /\ currentSection' = NULL
  /\ sectionContent' = <<>>
  /\ headerEndIndex' = HeaderEndIndex(trimmedLines)
  /\ i' = HeaderEndIndex(trimmedLines) + 1
  /\ pc' = "sections"
  /\ UNCHANGED <<openAIApiKey, ai, calls, returned, resumeText, contactInfo, sectionIndex, experiences, currentExp,
                 currentBullets, educations, result, src>>

\* extractSections, lines 368-458: one iteration of the loop over the lines
SectionLine ==
  /\ pc = "sections"
  /\ i < Len(trimmedLines)
  /\ LET trimmedLine  == trimmedLines[i + 1]
         originalLine == originalLines[i + 1]
         key          == MatchedSectionKey(trimmedLine)
     IN IF isDivider(trimmedLine)
        THEN UNCHANGED <<currentSection, sectionContent, sections, src>>
        ELSE IF key # NULL
        THEN /\ sections' = SaveSection(sections, currentSection, sectionContent)
             /\ src' = SaveSrc(src, currentSection, sectionContent)
             /\ currentSection' = key
             /\ sectionContent' = <<>>
        ELSE IF currentSection # NULL
        THEN /\ sectionContent' =
                  IF currentSection = "personalStatement" \/ trimmedLine # ""
                  THEN Append(sectionContent, Located(originalLine, i))
                  ELSE sectionContent
             /\ UNCHANGED <<currentSection, sections, src>>
        ELSE LET isNotASectionHeader  == key = NULL
                 isNotADivider        == ~isDivider(trimmedLine)
                 isBeforeFirstSection == i < headerEndIndex + SummaryWindow
                 isSubstantialEnough  == Len(trimmedLine) > MinSummaryLen
             IN /\ IF /\ isBeforeFirstSection /\ isSubstantialEnough
                      /\ isNotASectionHeader /\ isNotADivider
                   THEN /\ sections' =
                             [sections EXCEPT !.personalStatement =
                                IF @ = NULL \/ @ = "" THEN trimmedLine
                                ELSE @ \o " " \o trimmedLine]
                        /\ src' = [src EXCEPT !.summary = @ \cup {i}]
                   ELSE IF trimmedLine # ""
                   THEN /\ sections' = [sections EXCEPT !.other = Append(@, originalLine)]
                        /\ src' = [src EXCEPT !.other = @ \cup {i}]
                   ELSE UNCHANGED <<sections, src>>
                /\ UNCHANGED <<currentSection, sectionContent>>
  /\ i' = i + 1
  /\ UNCHANGED <<openAIApiKey, ai, calls, returned, resumeText, pc, contactInfo, headerEndIndex, sectionIndex, experiences,
                 currentExp, currentBullets, educations, result>>

\* NewExperiences with the array declared once at module level, outside the function
SharedExperiences == experiences

\* const experiences = [] (line 501)
NewExperiences == <<>>

\* extractSections, lines 460-488, then the entry of extractWorkExperience (494-501)
SectionsEnd ==
  /\ pc = "sections"
  /\ i >= Len(trimmedLines)
  /\ LET saved == SaveSection(sections, currentSection, sectionContent)
     IN sections' =
          IF saved.personalStatement # NULL /\ Len(Trim(saved.personalStatement)) = 0
          THEN [saved EXCEPT !.personalStatement = NULL]
          ELSE saved
  /\ src' = SaveSrc(src, currentSection, sectionContent)
  /\ experiences' = NewExperiences
  /\ sectionIndex' = 0
  /\ pc' = "workSection"
  /\ UNCHANGED <<openAIApiKey, ai, calls, returned, resumeText, contactInfo, headerEndIndex, i, currentSection, sectionContent,
                 currentExp, currentBullets, educations, result>>

(* ------------------------ extractWorkExperience ------------------------ *)

\* /^[•\-\*▪▫◦‣⁃]/
BulletStartRe == << <<Cls(BulletGlyphs, 1, 1)>> >>

\* /^\s{1,8}[•\-\*▪▫◦‣⁃]/ and /^\s{1,8}\d+[\.\)]/
IndentedBulletRe ==
  << <<Cls(WS, 1, 8), Cls(BulletGlyphs, 1, 1)>>, <<Cls(WS, 1, 8)>> \o NumberedRe >>

\* lines 532-535
isBulletLine(line, originalLine) ==
  \/ TestStart(BulletStartRe, Trim(line))
  \/ Test(<<NumberedRe>>, Trim(line))
  \/ TestStart(IndentedBulletRe, originalLine)
  \/ StartsWith(originalLine, "\t")

\* /engineer|manager|director|analyst|developer|designer|strategist|producer|specialist|coordinator|lead|senior|junior/i
jobTitleWords ==
  << LitI("engineer"), LitI("manager"), LitI("director"), LitI("analyst"),
     LitI("developer"), LitI("designer"), LitI("strategist"), LitI("producer"),
     LitI("specialist"), LitI("coordinator"), LitI("lead"), LitI("senior"),
     LitI("junior") >>

\* String.prototype.split(re) for an expression that matches no empty string
RECURSIVE SplitRe(_, _)
SplitRe(alts, s) ==
  LET m == Match(alts, s)
  IN IF m = NullRef THEN <<s>>
     ELSE <<SubSeq(s, 1, m.from - 1)>> \o SplitRe(alts, SubSeq(s, m.to, Len(s)))

\* /\s+-\s+/
DashSepRe == << <<Cls(WS, 1, Inf), Ch("-"), Cls(WS, 1, Inf)>> >>

\* the last element of parts that is a date, or NULL (parts.forEach, lines 552-554)
LastDatePart(parts) ==
  LET ds == {k \in DOMAIN parts : isDate(parts[k])}
  IN IF ds = {} THEN NULL ELSE parts[SetMax(ds)]

\* line 539
pipeFormat(line) == Includes(line, "|")

\* line 541
dashFormat(line) == Includes(line, " - ") /\ ~isDate(line)

\* detectedCompany, detectedTitle and detectedDate as declared, lines 544-546
NoDetection == [company |-> NULL, title |-> NULL, date |-> NULL]

\* DetectPipe without the assignment by position of lines 565-569
DetectPipeByKind(parts) ==
  IF Len(parts) >= 2
  THEN [company |-> IF isDate(parts[2]) THEN NULL ELSE parts[2],
        title   |-> IF isDate(parts[1]) THEN NULL ELSE parts[1],
        date    |-> LastDatePart(parts)]
  ELSE NoDetection

\* lines 549-570, parts being line.split('|').map(p => p.trim()).filter(p => p)
DetectPipe(parts) ==
  IF Len(parts) >= 3
  THEN [company |-> parts[2], title |-> parts[1], date |-> parts[3]]
  ELSE IF Len(parts) >= 2
  THEN [company |-> IF isDate(parts[2]) THEN NULL ELSE parts[2],
        title   |-> IF isDate(parts[1]) THEN NULL ELSE parts[1],
        date    |-> LastDatePart(parts)]
  ELSE NoDetection

\* DetectDashParts without the keyword tests of lines 583-590
DetectDashPartsByLength(firstPart, secondPart) ==
  IF Len(firstPart) < Len(secondPart)
  THEN [company |-> firstPart, title |-> secondPart, date |-> NULL]
  ELSE [company |-> secondPart, title |-> firstPart, date |-> NULL]

\* lines 579-600
DetectDashParts(firstPart, secondPart) ==
  IF Test(jobTitleWords, firstPart) /\ ~Test(jobTitleWords, secondPart)
  THEN [company |-> secondPart, title |-> firstPart, date |-> NULL]
  ELSE IF ~Test(jobTitleWords, firstPart) /\ Test(jobTitleWords, secondPart)
  THEN [company |-> firstPart, title |-> secondPart, date |-> NULL]
  ELSE IF Len(firstPart) < Len(secondPart)
  THEN [company |-> firstPart, title |-> secondPart, date |-> NULL]
  ELSE [company |-> secondPart, title |-> firstPart, date |-> NULL]

\* lines 573-601, parts being line.split(/\s+-\s+/).map(p => p.trim()).filter(p => p)
DetectDash(parts) ==
  IF Len(parts) >= 2 THEN DetectDashParts(parts[1], parts[2]) ELSE NoDetection

\* lines 548-602
Detect(line) ==
  IF pipeFormat(line) THEN DetectPipe(FilterNonEmpty(MapTrim(Split(line, "|"))))
  ELSE IF dashFormat(line) THEN DetectDash(FilterNonEmpty(MapTrim(SplitRe(DashSepRe, line))))
  ELSE NoDetection

StartsLikeBullet(l) == StartsWith(l, "~") \/ StartsWith(l, "-") \/ StartsWith(l, "\t")

\* lines 611-622
isLikelyCompany(allLines, k, isBullet) ==
  /\ ~isBullet
  /\ Len(allLines[k + 1]) < 80
  /\ Len(allLines[k + 1]) > 2
  /\ ~StartsLikeBullet(allLines[k + 1])
  /\ ~isDate(allLines[k + 1])
  /\ ~isSectionHeader(allLines[k + 1])
  /\ k + 1 < Len(allLines)
  /\ ~StartsLikeBullet(allLines[k + 2])

\* /[📍·•]|Remote|On-site|Hybrid|\d{4}\s*[-–]/
LocationDateRe ==
  << <<Cls({"!", "^", "~"}, 1, 1)>>, Lit("Remote"), Lit("On-site"), Lit("Hybrid"),
     <<Year, Cls(WS, 0, Inf), Cls(Dash, 1, 1)>> >>

hasLocationDatePattern(lineAfterNext) ==
  Test(LocationDateRe, lineAfterNext) \/ isDate(lineAfterNext)

\* lines 626-639
looksLikeNewCompany(likely, allLines, k) ==
  /\ likely
  /\ k + 2 < Len(allLines)
  /\ Len(allLines[k + 2]) > Len(allLines[k + 1])
  /\ ~isDate(allLines[k + 2])
  /\ ~StartsLikeBullet(allLines[k + 2])
  /\ hasLocationDatePattern(allLines[k + 3])

\* lines 644-656
isNewCompanyAfterBullets(likely, allLines, k, exp, bullets) ==
  /\ exp # NullRef
  /\ Len(bullets) > 0
  /\ likely
  /\ k + 2 < Len(allLines)
  /\ Len(allLines[k + 2]) > Len(allLines[k + 1])
  /\ ~isDate(allLines[k + 2])
  /\ ~StartsWith(allLines[k + 2], "~")
  /\ ~StartsWith(allLines[k + 2], "-")
  /\ hasLocationDatePattern(allLines[k + 3])

\* lines 684-686
isDashFormatCompany(line, d, exp) ==
  /\ dashFormat(line)
  /\ d.company # NULL
  /\ exp # NullRef
  /\ d.company # exp.company

\* the condition of line 689
isNewCompany(likely, allLines, k, d, exp, bullets) ==
  \/ isDashFormatCompany(allLines[k + 1], d, exp)
  \/ looksLikeNewCompany(likely, allLines, k)
  \/ isNewCompanyAfterBullets(likely, allLines, k, exp, bullets)
  \/ (likely /\ exp = NullRef)

\* /Remote|On-site|Hybrid/ and /Remote|On-site|Hybrid/i
PlaceRe == <<Lit("Remote"), Lit("On-site"), Lit("Hybrid")>>

PlaceReI == <<LitI("Remote"), LitI("On-site"), LitI("Hybrid")>>

RemoveChars(s, cs) ==
  JoinWith(SelectSeq([k \in 1..Len(s) |-> CharAt(s, k)], LAMBDA c : c \notin cs), "")

\* String.prototype.replace(re, '') without the g flag
RemoveFirst(alts, s) == IF Test(alts, s) THEN RemoveMatch(s, Match(alts, s)) ELSE s

\* s.match(re)[0]; TypeError when s.match(re) is null
TypeError == "TypeError"

MatchZero(alts, s) == IF Test(alts, s) THEN MatchText(s, Match(alts, s)) ELSE TypeError

\* line 722
isLocationDateLine(nextLine) ==
  \/ isDate(nextLine)
  \/ Includes(nextLine, "!")
  \/ Includes(nextLine, "^")
  \/ Test(PlaceRe, nextLine)

\* lines 724-727
DateOf(nextLine) ==
  IF Test(DateRangeRe, nextLine) THEN MatchZero(DateRangeRe, nextLine) ELSE ""

\* LocationIn with the match of line 735 made without the i flag of the test of
\* line 734
LocationInCaseSensitive(locationText) ==
  IF Test(PlaceReI, locationText) THEN MatchZero(PlaceRe, locationText)
  ELSE IF Test(<<CityStateRe>>, locationText) THEN MatchZero(<<CityStateRe>>, locationText)
  ELSE Trim(SplitRe(<< <<Year>> >>, locationText)[1])

\* lines 734-745
LocationIn(locationText) ==
  IF Test(PlaceReI, locationText) THEN MatchZero(PlaceReI, locationText)
  ELSE IF Test(<<CityStateRe>>, locationText) THEN MatchZero(<<CityStateRe>>, locationText)
  ELSE Trim(SplitRe(<< <<Year>> >>, locationText)[1])

\* lines 731-745
LocationOf(nextLine) ==
  LocationIn(Trim(RemoveFirst(DateRangeRe, RemoveChars(nextLine, {"!", "^"}))))

\* String.prototype.replace(/^.../, ''): repetition is greedy, so the longest
\* prefix the expression matches is removed
StripStart(alts, s) ==
  IF TestStart(alts, s)
  THEN SubSeq(s, SetMax(UNION {PatEnds(alts[a], s, {1}) : a \in DOMAIN alts}), Len(s))
  ELSE s

\* /^\s*[•\-\*▪▫◦‣⁃]\s*/, /^\s*\d+[\.\)]\s*/ and /^\t+/
BulletGlyphRe == << <<Cls(WS, 0, Inf), Cls(BulletGlyphs, 1, 1), Cls(WS, 0, Inf)>> >>

BulletNumberRe == << <<Cls(WS, 0, Inf)>> \o NumberedRe \o <<Cls(WS, 0, Inf)>> >>

TabsRe == << <<Cls({"\t"}, 1, Inf)>> >>

\* lines 764-768
BulletText(originalLine) ==
  Trim(StripStart(TabsRe, StripStart(BulletNumberRe, StripStart(BulletGlyphRe, originalLine))))

Ns(content) == [k \in DOMAIN content |-> content[k].n]

\* originalLineByIndex and allLines of lines 506-517, for one raw block
KeptLines(section) == SelectSeq(section, LAMBDA l : Trim(l.s) # "")

AllLines(section) == MapTrim(Strings(KeptLines(section)))

\* an Experience; src is a ghost: the index of the line that opened it, the indices
\* of the lines read into company/title/date/location, and those of its bullets
Experience(company, title, date, location, first, fields) ==
  [company |-> company, title |-> title, date |-> date, location |-> location,
   bullets |-> <<>>, src |-> [first |-> first, fields |-> fields, bullets |-> <<>>]]

\* PushCurrent with experiences.unshift(currentExp) for experiences.push(currentExp)
PushCurrentFirst(exps, exp, bullets) ==
  IF exp # NullRef
  THEN <<[exp EXCEPT !.bullets = Strings(bullets), !.src.bullets = Ns(bullets)]>> \o exps
  ELSE exps

\* PushCurrent with the push made only for an Experience that has bullets
PushCurrentIfBullets(exps, exp, bullets) ==
  IF exp # NullRef /\ Len(bullets) > 0
  THEN Append(exps, [exp EXCEPT !.bullets = Strings(bullets), !.src.bullets = Ns(bullets)])
  ELSE exps

\* currentExp.bullets = currentBullets; experiences.push(currentExp)
PushCurrent(exps, exp, bullets) ==
  IF exp # NullRef
  THEN Append(exps, [exp EXCEPT !.bullets = Strings(bullets), !.src.bullets = Ns(bullets)])
  ELSE exps

\* x || ''
OrBlank(x) == IF x = NULL THEN "" ELSE x

\* lines 246-252
Failure(message) ==
  [error |-> "Failed to parse resume content: " \o message, success |-> FALSE]

\* extractWorkExperience, lines 503-521: the start of one forEach iteration, or,
\* after the last block, the return and the entry of extractEducation (884-889)
WorkSection ==
  /\ pc = "workSection"
  /\ IF sectionIndex < Len(sections.workExperience)
     THEN /\ currentExp' = NullRef
          /\ currentBullets' = <<>>
          /\ i' = 0
          /\ pc' = "workLines"
          /\ UNCHANGED <<sectionIndex, educations>>
     ELSE /\ educations' = <<>>
          /\ sectionIndex' = 0
          /\ pc' = "educationSection"
          /\ UNCHANGED <<currentExp, currentBullets, i>>
  /\ UNCHANGED <<openAIApiKey, ai, calls, returned, resumeText, contactInfo, headerEndIndex, currentSection, sectionContent,
                 sections, experiences, result, src>>

\* lines 659-680: a new experience from the pipe or dash format of line n
OpenDetected(d, n) ==
  /\ experiences' = PushCurrent(experiences, currentExp, currentBullets)
  /\ currentExp' = Experience(d.company, OrBlank(d.title), OrBlank(d.date), "", n, {n})
  /\ currentBullets' = <<>>
  /\ i' = i + 1
  /\ UNCHANGED <<pc, result>>

\* lines 705-716: the line after the company line is taken as the title
takesTitle(allLines, k) ==
  /\ k + 1 < Len(allLines)
  /\ ~StartsLikeBullet(allLines[k + 2])
  /\ ~isDate(allLines[k + 2])
  /\ ~isSectionHeader(allLines[k + 2])

\* lines 719-722: the line after index k is taken as the location and date
takesDate(allLines, k) ==
  /\ k + 1 < Len(allLines)
  /\ isLocationDateLine(allLines[k + 2])

\* lines 690-759: a new experience whose company is line i, k1 and k2 being the
\* values of i after the title step and after the location/date step; the throw
\* of line 735 is caught at line 246
OpenCompany(allLines, ns, k1, k2, location) ==
  IF location = TypeError
  THEN /\ result' = Failure("Cannot read properties of null (reading '0')")
       /\ pc' = "done"
       /\ UNCHANGED <<experiences, currentExp, currentBullets, i>>
  ELSE /\ experiences' = PushCurrent(experiences, currentExp, currentBullets)
       /\ currentExp' = Experience(allLines[i + 1],
                                   IF k1 > i THEN allLines[k1 + 1] ELSE "",
                                   IF k2 > k1 THEN DateOf(allLines[k2 + 1]) ELSE "",
                                   location, ns[i + 1], {ns[k + 1] : k \in i..k2})
       /\ currentBullets' = <<>>
       /\ i' = k2 + 1
       /\ UNCHANGED <<pc, result>>

OpenCompanyAfterTitle(allLines, ns, k1) ==
  IF takesDate(allLines, k1)
  THEN OpenCompany(allLines, ns, k1, k1 + 1, LocationOf(allLines[k1 + 2]))
  ELSE OpenCompany(allLines, ns, k1, k1, "")

\* AddBullet with a continue ahead of the i++ of line 807
AddBulletInPlace(text, n) ==
  /\ IF currentExp # NullRef
     THEN /\ currentBullets' =
               IF text # "" THEN Append(currentBullets, Located(text, n)) ELSE currentBullets
          /\ UNCHANGED experiences
     ELSE /\ experiences' =
               IF Len(experiences) > 0 /\ text # ""
               THEN [experiences EXCEPT ![Len(experiences)].bullets = Append(@, text),
                                        ![Len(experiences)].src.bullets = Append(@, n)]
               ELSE experiences
          /\ UNCHANGED currentBullets
  /\ i' = i
  /\ UNCHANGED <<currentExp, pc, result>>

\* lines 760-791: a bullet line, text being its text without the marker
AddBullet(text, n) ==
  /\ IF currentExp # NullRef
     THEN /\ currentBullets' =
               IF text # "" THEN Append(currentBullets, Located(text, n)) ELSE currentBullets
          /\ UNCHANGED experiences
     ELSE /\ experiences' =
               IF Len(experiences) > 0 /\ text # ""
               THEN [experiences EXCEPT ![Len(experiences)].bullets = Append(@, text),
                                        ![Len(experiences)].src.bullets = Append(@, n)]
               ELSE experiences
          /\ UNCHANGED currentBullets
  /\ i' = i + 1
  /\ UNCHANGED <<currentExp, pc, result>>

\* /^\s{2,8}/
IndentRe == << <<Cls(WS, 2, 8)>> >>

\* lines 792-805: any other line while an experience is open
OtherLine(line, originalLine, n) ==
  /\ IF TestStart(IndentRe, originalLine) /\ Len(line) < 150 /\ ~isDate(line)
        /\ ~isSectionHeader(line)
     THEN /\ currentBullets' = Append(currentBullets, Located(line, n))
          /\ UNCHANGED currentExp
     ELSE IF currentExp.title = ""
     THEN /\ currentExp' = [currentExp EXCEPT !.title = line, !.src.fields = @ \cup {n}]
          /\ UNCHANGED currentBullets
     ELSE UNCHANGED <<currentExp, currentBullets>>
  /\ i' = i + 1
  /\ UNCHANGED <<experiences, pc, result>>

\* lines 659-808: the branches of one iteration
WorkLineCase(allLines, kept, d, isBullet, likely) ==
  IF (pipeFormat(allLines[i + 1]) \/ dashFormat(allLines[i + 1])) /\ d.company # NULL
  THEN OpenDetected(d, kept[i + 1].n)
  ELSE IF isNewCompany(likely, allLines, i, d, currentExp, currentBullets)
  THEN IF takesTitle(allLines, i)
       THEN OpenCompanyAfterTitle(allLines, Ns(kept), i + 1)
       ELSE OpenCompanyAfterTitle(allLines, Ns(kept), i)
  ELSE IF isBullet
  THEN AddBullet(BulletText(kept[i + 1].s), kept[i + 1].n)
  ELSE IF currentExp # NullRef
  THEN OtherLine(allLines[i + 1], kept[i + 1].s, kept[i + 1].n)
  ELSE /\ i' = i + 1
       /\ UNCHANGED <<experiences, currentExp, currentBullets, pc, result>>

WorkLineIn(allLines, kept, isBullet) ==
  WorkLineCase(allLines, kept, Detect(allLines[i + 1]), isBullet,
               isLikelyCompany(allLines, i, isBullet))

\* ghost: the indices of allLines that the iteration at index k reads.  Line 524
\* reads k; isLikelyCompany reads k + 1 once its tests of line k and the test of
\* line 619 hold; lines 627-629 and 645-647 read k + 1 and k + 2 when i + 2 <
\* allLines.length; the branch of line 689 reads the line after the company
\* (lines 706-707) and the line after the title, if one was taken (lines 719-720).
WorkReads(allLines, k, d, isBullet, exp, bullets) ==
  LET line   == allLines[k + 1]
      alone  == /\ ~isBullet /\ Len(line) < 80 /\ Len(line) > 2 /\ ~StartsLikeBullet(line)
                /\ ~isDate(line) /\ ~isSectionHeader(line)
      likely == isLikelyCompany(allLines, k, isBullet)
      opens  == /\ ~((pipeFormat(line) \/ dashFormat(line)) /\ d.company # NULL)
                /\ isNewCompany(likely, allLines, k, d, exp, bullets)
      k1     == IF takesTitle(allLines, k) THEN k + 1 ELSE k
  IN {k}
     \cup (IF alone /\ k + 1 < Len(allLines) THEN {k + 1} ELSE {})
     \cup (IF likely /\ k + 2 < Len(allLines) THEN {k + 1, k + 2} ELSE {})
     \cup (IF opens /\ k + 1 < Len(allLines) THEN {k + 1} ELSE {})
     \cup (IF opens /\ k1 + 1 < Len(allLines) THEN {k1 + 1} ELSE {})

\* extractWorkExperience, lines 523-808: one iteration of the while loop
WorkLine ==
  /\ pc = "workLines"
  /\ i < Len(KeptLines(sections.workExperience[sectionIndex + 1]))
  /\ WorkLineIn(AllLines(sections.workExperience[sectionIndex + 1]),
                KeptLines(sections.workExperience[sectionIndex + 1]),
                isBulletLine(AllLines(sections.workExperience[sectionIndex + 1])[i + 1],
                             KeptLines(sections.workExperience[sectionIndex + 1])[i + 1].s))
  /\ UNCHANGED <<openAIApiKey, ai, calls, returned, resumeText, contactInfo, headerEndIndex, currentSection, sectionContent,
                 sections, sectionIndex, educations, src>>

\* section.split(/\n\n+/).filter(entry => entry.trim()), each entry then split on
\* '\n' and filtered to its non-blank lines: two consecutive '\n' occur in the
\* joined block exactly around an empty line
RECURSIVE Paragraphs(_, _)
Paragraphs(section, cur) ==
  LET close == IF SelectSeq(cur, LAMBDA l : Trim(l.s) # "") = <<>> THEN <<>>
               ELSE <<SelectSeq(cur, LAMBDA l : Trim(l.s) # "")>>
  IN IF section = <<>> THEN close
     ELSE IF Head(section).s = "" THEN close \o Paragraphs(Tail(section), <<>>)
     ELSE Paragraphs(Tail(section), Append(cur, Head(section)))

\* /^[•\-\*▪▫◦‣⁃\d+\.\)]\s*/
FallbackMarkerRe ==
  << <<Cls(BulletGlyphs \cup Digits \cup {"+", ".", ")"}, 1, 1), Cls(WS, 0, Inf)>> >>

Slice(ss, from) == SubSeq(ss, from + 1, Len(ss))

OrEmpty(parts, k) == IF k <= Len(parts) THEN parts[k] ELSE ""

\* lines 826-873: the entry made of one paragraph (its non-blank lines), if any
FallbackEntry(lines) ==
  LET firstLine == lines[1].s
      parts     == MapTrim(Split(firstLine, "|"))
      piped     == Includes(firstLine, "|")
      secondIsDate == Len(lines) > 1 /\ isDate(lines[2].s)
      thirdIsDate  == Len(lines) > 2 /\ isDate(lines[3].s)
      title   == IF piped THEN OrEmpty(parts, 1) ELSE firstLine
      company == IF piped THEN OrEmpty(parts, 2)
                 ELSE IF Len(lines) > 1 /\ ~secondIsDate THEN lines[2].s ELSE ""
      date    == IF piped THEN OrEmpty(parts, 3)
                 ELSE IF secondIsDate THEN lines[2].s
                 ELSE IF thirdIsDate THEN lines[3].s ELSE ""
      bullets == IF piped THEN Slice(lines, 1)
                 ELSE IF Len(lines) > 1 /\ ~secondIsDate /\ thirdIsDate THEN Slice(lines, 3)
                 ELSE Slice(lines, 2)
      marked  == SelectSeq(bullets, LAMBDA l : TestStart(BulletStartRe, Trim(l.s))
                                               \/ Test(<<NumberedRe>>, Trim(l.s)))
      extractedBullets ==
        [k \in DOMAIN marked |-> Located(Trim(StripStart(FallbackMarkerRe, marked[k].s)),
                                         marked[k].n)]
      kept    == IF Len(extractedBullets) > 0 THEN extractedBullets ELSE bullets
      fields  == {lines[k].n : k \in 1..(Len(lines) - Len(bullets))}
  IN IF title # "" \/ company # ""
     THEN << [title |-> title, company |-> company, date |-> date,
              bullets |-> Strings(kept),
              src |-> [first |-> lines[1].n, fields |-> fields, bullets |-> Ns(kept)]] >>
     ELSE <<>>

RECURSIVE FallbackEntries(_)
FallbackEntries(entries) ==
  IF entries = <<>> THEN <<>>
  ELSE FallbackEntry(Head(entries)) \o FallbackEntries(Tail(entries))

\* extractWorkExperience, lines 810-875: the end of one forEach iteration
WorkSectionEnd ==
  /\ pc = "workLines"
  /\ LET section == sections.workExperience[sectionIndex + 1]
         pushed  == PushCurrent(experiences, currentExp, currentBullets)
     IN /\ i >= Len(AllLines(section))
        /\ experiences' = IF Len(pushed) = 0
                          THEN FallbackEntries(Paragraphs(section, <<>>))
                          ELSE pushed
  /\ sectionIndex' = sectionIndex + 1
  /\ pc' = "workSection"
  /\ UNCHANGED <<openAIApiKey, ai, calls, returned, resumeText, contactInfo, headerEndIndex, i, currentSection, sectionContent,
                 sections, currentExp, currentBullets, educations, result, src>>

(* --------------------------- extractEducation -------------------------- *)

OptDot == <<Cls({"."}, 0, 1)>>

RECURSIVE Dotted(_)
Dotted(ps) == IF ps = <<>> THEN <<>> ELSE LitI(Head(ps)) \o OptDot \o Dotted(Tail(ps))

\* /B\.?S\.?|B\.?A\.?|M\.?S\.?|M\.?A\.?|Ph\.?D\.?|Bachelor|Master|Doctorate|Associate|B\.?Sc\.?|B\.?Eng\.?|B\.?Comm\.?/i
degreePattern ==
  << Dotted(<<"B", "S">>), Dotted(<<"B", "A">>), Dotted(<<"M", "S">>), Dotted(<<"M", "A">>),
     Dotted(<<"Ph", "D">>), LitI("Bachelor"), LitI("Master"), LitI("Doctorate"),
     LitI("Associate"), Dotted(<<"B", "Sc">>), Dotted(<<"B", "Eng">>),
     Dotted(<<"B", "Comm">>) >>

\* /Certificate|Certification|Diploma|Bootcamp|Immersive|Program|Course|Training/i
certificatePattern ==
  << LitI("Certificate"), LitI("Certification"), LitI("Diploma"), LitI("Bootcamp"),
     LitI("Immersive"), LitI("Program"), LitI("Course"), LitI("Training") >>

\* /University|College|School|Institute|Academy/i
institutionPattern ==
  << LitI("University"), LitI("College"), LitI("School"), LitI("Institute"),
     LitI("Academy") >>

NumberRe == <<Cls(Digits, 1, Inf), Cls({"."}, 0, 1), Cls(Digits, 0, Inf)>>

\* /(\d+\.?\d*)\s*GPA|GPA[:\s]+(\d+\.?\d*)/i
GpaBeforeRe == NumberRe \o <<Cls(WS, 0, Inf)>> \o LitI("GPA")

GpaPrefixRe == LitI("GPA") \o <<Cls({":"} \cup WS, 1, Inf)>>

GpaRe == <<GpaBeforeRe, GpaPrefixRe \o NumberRe>>

\* gpaMatch[1] || gpaMatch[2], or '' when the line has no GPA
GpaOf(line) ==
  LET m == Match(GpaRe, line)
  IN IF m = NullRef THEN ""
     ELSE LET rest == SubSeq(line, m.from, m.to - 1)
              tail == <<Cls(WS, 0, Inf)>> \o LitI("GPA")
              es   == {e \in PatEnds(NumberRe, rest, {1}) :
                         (Len(rest) + 1) \in PatEnds(tail, rest, {e})}
          IN IF PatEnds(GpaBeforeRe, line, {m.from}) # {}
             THEN SubSeq(rest, 1, SetMax(es) - 1)
             ELSE StripStart(<<GpaPrefixRe>>, rest)

isCertificate(l) == Test(certificatePattern, l)

isDegree(l) == Test(degreePattern, l)

isStandaloneCertificate(line) == isCertificate(line) /\ ~Test(institutionPattern, line)

\* lines 912-919
isLikelySchool(allLines, k) ==
  LET line == allLines[k + 1]
  IN \/ Test(institutionPattern, line)
     \/ /\ Len(line) > 5
        /\ Len(line) < 60
        /\ ~StartsWith(line, "~")
        /\ ~StartsWith(line, "-")
        /\ ~isDate(line)
        /\ ~Includes(line, "^")
        /\ ~isCertificate(line)
        /\ k + 1 < Len(allLines)

\* an EducationEntry; src is a ghost: for each field the index of the line it was
\* read from (-1 when from none)
None == 0 - 1

EducationEntry(school, degree, date, gpa, certificate, from) ==
  [school |-> school, degree |-> degree, date |-> date, gpa |-> gpa,
   certificate |-> certificate, src |-> from]

NoSrc == [first |-> None, school |-> None, degree |-> None, date |-> None,
          certificate |-> None]

\* lines 921-939
StandaloneCertificate(line, n) ==
  LET dateMatch == Match(DateRangeRe, line)
  IN EducationEntry("", "",
                    IF dateMatch = NullRef THEN "" ELSE MatchText(line, dateMatch),
                    "",
                    IF dateMatch = NullRef THEN line ELSE Trim(RemoveMatch(line, dateMatch)),
                    [NoSrc EXCEPT !.first = n, !.certificate = n,
                                  !.date = IF dateMatch = NullRef THEN None ELSE n])

\* SchoolEntry with the tests of lines 953 and 968 made one after the other, each on
\* its own pattern alone
SchoolEntryOverlapping(allLines, ns, k) ==
  LET school   == allLines[k + 1]
      hasNext  == k + 1 < Len(allLines)
      nextLine == allLines[k + 2]
      base     == [NoSrc EXCEPT !.first = ns[k + 1], !.school = ns[k + 1]]
      isCert   == hasNext /\ isCertificate(nextLine)
      isDeg    == hasNext /\ isDegree(nextLine)
  IN [entry |-> EducationEntry(school,
                               IF isDeg THEN nextLine ELSE "",
                               "", "",
                               IF isCert THEN nextLine ELSE NULL,
                               [base EXCEPT !.degree = IF isDeg THEN ns[k + 2] ELSE None,
                                            !.certificate = IF isCert THEN ns[k + 2] ELSE None]),
      used  |-> IF isCert \/ isDeg THEN 1 ELSE 0]

\* lines 940-1014: the entry opened by the school line at index k, and the number
\* of following lines it consumes
SchoolEntry(allLines, ns, k) ==
  LET school    == allLines[k + 1]
      hasNext   == k + 1 < Len(allLines)
      nextLine  == allLines[k + 2]
      hasAfter  == k + 2 < Len(allLines)
      lineAfter == allLines[k + 3]
      inline    == Match(DateRangeRe, nextLine)
      base      == [NoSrc EXCEPT !.first = ns[k + 1], !.school = ns[k + 1]]
  IN IF ~hasNext
     THEN [entry |-> EducationEntry(school, "", "", "", NULL, base), used |-> 0]
     ELSE IF isCertificate(nextLine) /\ ~isDegree(nextLine)
     THEN IF inline # NullRef
          THEN [entry |-> EducationEntry(school, "", MatchText(nextLine, inline), "", nextLine,
                            [base EXCEPT !.certificate = ns[k + 2], !.date = ns[k + 2]]),
                used |-> 1]
          ELSE IF hasAfter /\ isDate(lineAfter)
          THEN [entry |-> EducationEntry(school, "", lineAfter, "", nextLine,
                            [base EXCEPT !.certificate = ns[k + 2], !.date = ns[k + 3]]),
                used |-> 2]
          ELSE [entry |-> EducationEntry(school, "", "", "", nextLine,
                            [base EXCEPT !.certificate = ns[k + 2]]),
                used |-> 1]
     ELSE IF isDegree(nextLine) /\ ~isCertificate(nextLine)
     THEN LET date == IF inline = NullRef THEN "" ELSE MatchText(nextLine, inline)
              b2   == [base EXCEPT !.degree = ns[k + 2],
                                   !.date = IF inline = NullRef THEN None ELSE ns[k + 2]]
          IN IF hasAfter /\ isCertificate(lineAfter) /\ ~isDegree(lineAfter)
             THEN [entry |-> EducationEntry(school, nextLine, date, GpaOf(nextLine), lineAfter,
                               [b2 EXCEPT !.certificate = ns[k + 3]]),
                   used |-> 2]
             ELSE IF hasAfter /\ isDate(lineAfter) /\ date = ""
             THEN [entry |-> EducationEntry(school, nextLine, lineAfter, GpaOf(nextLine), NULL,
                               [b2 EXCEPT !.date = ns[k + 3]]),
                   used |-> 2]
             ELSE [entry |-> EducationEntry(school, nextLine, date, GpaOf(nextLine), NULL, b2),
                   used |-> 1]
     ELSE IF isDate(nextLine)
     THEN [entry |-> EducationEntry(school, "", nextLine, "", NULL,
                       [base EXCEPT !.date = ns[k + 2]]),
           used |-> 1]
     ELSE IF ~isCertificate(nextLine)
     THEN [entry |-> EducationEntry(school, nextLine, "", "", NULL,
                       [base EXCEPT !.degree = ns[k + 2]]),
           used |-> 1]
     ELSE [entry |-> EducationEntry(school, "", "", "", NULL, base), used |-> 0]

\* lines 1016-1041
StandaloneDegree(line, n) ==
  LET dateMatch == Match(DateRangeRe, line)
  IN EducationEntry("", line,
                    IF dateMatch = NullRef THEN "" ELSE MatchText(line, dateMatch),
                    GpaOf(line), NULL,
                    [NoSrc EXCEPT !.first = n, !.degree = n,
                                  !.date = IF dateMatch = NullRef THEN None ELSE n])

\* ghost: the indices of allLines that the iteration at index k reads.  Line 896
\* reads k; the school branch reads k + 1 (lines 949-950) and, after a certificate
\* line without a date in it (line 962) or after a degree line (lines 986-987),
\* k + 2.
EducationReads(allLines, k) ==
  LET line     == allLines[k + 1]
      school   == /\ ~(isSectionHeader(line) \/ isDivider(line))
                  /\ ~isStandaloneCertificate(line)
                  /\ isLikelySchool(allLines, k)
                  /\ k + 1 < Len(allLines)
      nextLine == allLines[k + 2]
      further  == \/ /\ isCertificate(nextLine) /\ ~isDegree(nextLine)
                     /\ Match(DateRangeRe, nextLine) = NullRef
                  \/ isDegree(nextLine) /\ ~isCertificate(nextLine)
  IN {k}
     \cup (IF school THEN {k + 1} ELSE {})
     \cup (IF school /\ further /\ k + 2 < Len(allLines) THEN {k + 2} ELSE {})

\* extractEducation, lines 891-894: the start of one forEach iteration, or, after the
\* last block, the return
EducationSection ==
  /\ pc = "educationSection"
  /\ IF sectionIndex < Len(sections.education)
     THEN /\ i' = 0
          /\ pc' = "educationLines"
     ELSE /\ pc' = "skills"
          /\ UNCHANGED i
  /\ UNCHANGED <<openAIApiKey, ai, calls, returned, resumeText, contactInfo, headerEndIndex, currentSection, sectionContent,
                 sections, sectionIndex, experiences, currentExp, currentBullets, educations,
                 result, src>>

\* extractEducation, lines 895-1045: one iteration of the while loop
EducationLine ==
  /\ pc = "educationLines"
  /\ LET section  == sections.education[sectionIndex + 1]
         allLines == AllLines(section)
         ns       == Ns(KeptLines(section))
     IN /\ i < Len(allLines)
        /\ LET line == allLines[i + 1]
           IN IF isSectionHeader(line) \/ isDivider(line)
              THEN /\ i' = i + 1
                   /\ UNCHANGED educations
              ELSE IF isStandaloneCertificate(line)
              THEN /\ educations' = Append(educations, StandaloneCertificate(line, ns[i + 1]))
                   /\ i' = i + 1
              ELSE IF isLikelySchool(allLines, i)
              THEN /\ educations' = Append(educations, SchoolEntry(allLines, ns, i).entry)
                   /\ i' = i + SchoolEntry(allLines, ns, i).used + 1
              ELSE IF isDegree(line) /\ ~isCertificate(line)
              THEN /\ educations' = Append(educations, StandaloneDegree(line, ns[i + 1]))
                   /\ i' = i + 1
              ELSE /\ i' = i + 1
                   /\ UNCHANGED educations
  /\ UNCHANGED <<openAIApiKey, ai, calls, returned, resumeText, pc, contactInfo, headerEndIndex, currentSection, sectionContent,
                 sections, sectionIndex, experiences, currentExp, currentBullets, result, src>>

\* extractEducation, line 1046: the end of one forEach iteration
EducationSectionEnd ==
  /\ pc = "educationLines"
  /\ i >= Len(AllLines(sections.education[sectionIndex + 1]))
  /\ sectionIndex' = sectionIndex + 1
  /\ pc' = "educationSection"
  /\ UNCHANGED <<openAIApiKey, ai, calls, returned, resumeText, contactInfo, headerEndIndex, i, currentSection, sectionContent,
                 sections, experiences, currentExp, currentBullets, educations, result, src>>

(* ----------------------------- extractSkills --------------------------- *)

\* /:\s*[A-Z]/ and /:\s*$/
CategoryRe == << <<Ch(":"), Cls(WS, 0, Inf), Cls(Uppers, 1, 1)>> >>

isCategoryLine(line) ==
  \/ \E e \in PatEnds(<<Ch(":"), Cls(WS, 0, Inf)>>, line, 1..Len(line)) : e = Len(line) + 1
  \/ Test(CategoryRe, line)

\* /^[•\-\*▪▫◦‣⁃]\s*/ and /^[•\-\*▪▫◦‣⁃\t]\s*/
SkillMarkerRe == << <<Cls(BulletGlyphs, 1, 1), Cls(WS, 0, Inf)>> >>

SkillMarkerTabRe == << <<Cls(BulletGlyphs \cup {"\t"}, 1, 1), Cls(WS, 0, Inf)>> >>

HasKey(cs, key) == \E k \in DOMAIN cs : cs[k].category = key

KeyIndex(cs, key) == CHOOSE k \in DOMAIN cs : cs[k].category = key

\* categorizedSkills[key] = value: a new property goes last, an existing one keeps its place
SetKey(cs, key, value) ==
  IF HasKey(cs, key) THEN [cs EXCEPT ![KeyIndex(cs, key)].skills = value]
  ELSE Append(cs, [category |-> key, skills |-> value])

GetKey(cs, key) == IF HasKey(cs, key) THEN cs[KeyIndex(cs, key)].skills ELSE ""

\* lines 1074-1095: the forEach over the lines in categorized mode
RECURSIVE Categorize(_, _, _)
Categorize(lines, cs, currentCategory) ==
  IF lines = <<>> THEN cs
  ELSE LET line       == Head(lines)
           colonIndex == IndexOf(line, ":") - 1
           cleaned    == Trim(StripStart(SkillMarkerRe, line))
       IN IF isCategoryLine(line)
          THEN IF colonIndex > 0
               THEN Categorize(Tail(lines),
                               SetKey(cs, Trim(SubSeq(line, 1, colonIndex)),
                                      Trim(SubSeq(line, colonIndex + 2, Len(line)))),
                               Trim(SubSeq(line, 1, colonIndex)))
               ELSE Categorize(Tail(lines), cs, currentCategory)
          ELSE Categorize(Tail(lines),
                          SetKey(cs, currentCategory,
                                 IF GetKey(cs, currentCategory) # ""
                                 THEN GetKey(cs, currentCategory) \o ", " \o cleaned
                                 ELSE cleaned),
                          currentCategory)

\* a property name that is an array index: Object.entries lists these first, ascending
isIndexKey(key) ==
  /\ TestFull(<< <<Cls(Digits, 1, Inf)>> >>, key)
  /\ (key = "0" \/ CharAt(key, 1) # "0")

DigitValue(c) == CHOOSE v \in 0..9 : CharAt("0123456789", v + 1) = c

RECURSIVE NumLess(_, _)
NumLess(a, b) ==
  IF Len(a) # Len(b) THEN Len(a) < Len(b)
  ELSE IF a = "" THEN FALSE
  ELSE IF CharAt(a, 1) # CharAt(b, 1) THEN DigitValue(CharAt(a, 1)) < DigitValue(CharAt(b, 1))
  ELSE NumLess(Tail(a), Tail(b))

RECURSIVE SortIndexKeys(_)
SortIndexKeys(cs) ==
  IF cs = <<>> THEN <<>>
  ELSE LET k == CHOOSE j \in DOMAIN cs :
                  \A l \in DOMAIN cs : l = j \/ NumLess(cs[j].category, cs[l].category)
       IN <<cs[k]>> \o SortIndexKeys(SubSeq(cs, 1, k - 1) \o SubSeq(cs, k + 1, Len(cs)))

\* Object.entries(categorizedSkills)
Entries(cs) ==
  SortIndexKeys(SelectSeq(cs, LAMBDA e : isIndexKey(e.category)))
  \o SelectSeq(cs, LAMBDA e : ~isIndexKey(e.category))

\* lines 1108-1127: the forEach over the lines in flat mode
RECURSIVE FlatSkills(_)
FlatSkills(lines) ==
  IF lines = <<>> THEN <<>>
  ELSE LET cleaned == Trim(StripStart(SkillMarkerTabRe, Head(lines)))
       IN (IF cleaned = "" THEN <<>>
           ELSE IF Includes(cleaned, ",") THEN FilterNonEmpty(MapTrim(Split(cleaned, ",")))
           ELSE <<cleaned>>)
          \o FlatSkills(Tail(lines))

\* extractSkills(sections.skills || [])
extractSkills(skillsSection) ==
  LET skillsText == IF skillsSection = NULL THEN "" ELSE skillsSection
      allLines   == FilterNonEmpty(MapTrim(Split(skillsText, "\n")))
      hasCategories == \E k \in DOMAIN allLines : Test(CategoryRe, allLines[k])
      es == Entries(Categorize(allLines, <<>>, "General"))
  IN IF hasCategories
     THEN JoinWith([k \in DOMAIN es |->
                      IF es[k].skills # "" THEN es[k].category \o ": " \o es[k].skills
                      ELSE es[k].category],
                   "\n")
     ELSE JoinWith(FlatSkills(allLines), ", ")

\* parseResumeContent, lines 225-245
Return ==
  /\ pc = "skills"
  /\ result' = [ success           |-> TRUE,
                 contactInfo       |-> contactInfo,
                 personalStatement |-> IF sections.personalStatement = "" THEN NULL
                                       ELSE sections.personalStatement,
                 workExperience    |-> experiences,
                 skills            |-> extractSkills(sections.skills),
                 education         |-> educations,
                 otherSections     |-> sections.other,
                 rawText           |-> resumeText ]
  /\ pc' = "done"
  /\ UNCHANGED <<openAIApiKey, ai, calls, returned, resumeText, contactInfo, headerEndIndex, i, currentSection, sectionContent,
                 sections, sectionIndex, experiences, currentExp, currentBullets, educations,
                 src>>

(* --------------------------- specifications ---------------------------- *)

\* parseResumeContent is entered, whatever its arguments
Entry ==
  /\ pc = "parse"
  /\ ai = "no"
  /\ contactInfo = NullRef
  /\ headerEndIndex = 0
  /\ i = 0
  /\ currentSection = NULL
  /\ sectionContent = <<>>
  /\ sections = NullRef
  /\ sectionIndex = 0
  /\ experiences = <<>>
  /\ currentExp = NullRef
  /\ currentBullets = <<>>
  /\ educations = <<>>
  /\ result = NullRef
  /\ src = NoLines
  /\ calls = 0
  /\ returned = {}

\* The state before parseResumeContent is entered without an API key.
Start ==
  /\ openAIApiKey = NULL
  /\ Entry

\* One invocation of parseResumeContent.
Next ==
  \/ Parse
  \/ HeaderScan
  \/ SectionLine
  \/ SectionsEnd
  \/ WorkSection
  \/ WorkLine
  \/ WorkSectionEnd
  \/ EducationSection
  \/ EducationLine
  \/ EducationSectionEnd
  \/ Return

BoundedSeq(S, n) == UNION {[1..k -> S] : k \in 0..n}

NonEmptySeq(S, n) == UNION {[1..k -> S] : k \in 1..n}

\* !resumeText || !resumeText.trim() holds of these
BlankTexts == {<<"">>, <<"  ">>, <<" ", "\t">>}

(* Spec: any text made of a name line and up to MaxBody lines of Vocabulary. *)

MaxBody == 3

Names == {"John Doe", "JOHN DOE"}

Vocabulary ==
  {"", "EXPERIENCE", "EDUCATION", "jd@acme.io", "Dev | Acme", "2020 - Present", "MIT"}

Texts ==
  BlankTexts \cup {<<name>> \o body : name \in Names, body \in BoundedSeq(Vocabulary, MaxBody)}

Init == resumeText \in Texts /\ Start

Spec == Init /\ [][Next]_vars

(* SpecWork: a work-experience header and up to MaxWorkLines lines after it.  *)

MaxWorkLines == 3

WorkVocabulary ==
  {"EXPERIENCE", "EDUCATION", "Dev | Acme", "State College", "~ Built X",
   "remote ^ 2019 - 2020"}

WorkTexts ==
  {<<"John Doe", "EXPERIENCE">> \o body : body \in BoundedSeq(WorkVocabulary, MaxWorkLines)}

InitWork == resumeText \in WorkTexts /\ Start

SpecWork == InitWork /\ [][Next]_vars

(* SpecGroups: a work-experience block of up to MaxGroups groups, each a      *)
(* company line, a title line, a date line and up to MaxBullets bullets.      *)

MaxGroups == 2

MaxBullets == 2

Companies == {"Acme Corp"}

Titles == {"Engineer", "Senior Engineer"}

Dates == {"2020 - Present"}

BulletLines == {"~ Built X", "- Shipped Y"}

Groups ==
  {<<c, t, d>> \o bs : c \in Companies, t \in Titles, d \in Dates,
                       bs \in NonEmptySeq(BulletLines, MaxBullets)}

RECURSIVE Flatten(_)
Flatten(ss) == IF ss = <<>> THEN <<>> ELSE Head(ss) \o Flatten(Tail(ss))

\* a text with an education block, so that every extractor runs
Sample == <<"John Doe", "EXPERIENCE", "Dev | Acme", "EDUCATION", "State College">>

GroupTexts ==
  {Sample} \cup {<<"John Doe", "EXPERIENCE">> \o Flatten(gs) : gs \in NonEmptySeq(Groups, MaxGroups)}

InitGroups == resumeText \in GroupTexts /\ Start

SpecGroups == InitGroups /\ [][Next]_vars

(* SpecEdu: an education header and up to MaxEduLines lines after it.         *)

MaxEduLines == 3

EduVocabulary ==
  {"MIT", "State College", "B.S. Computer Science", "2016 - 2020", "Data Certificate",
   "Bachelor Program"}

EduTexts ==
  {Sample} \cup {<<"John Doe", "EDUCATION">> \o body : body \in BoundedSeq(EduVocabulary, MaxEduLines)}

InitEdu == resumeText \in EduTexts /\ Start

SpecEdu == InitEdu /\ [][Next]_vars

(* SpecCalls: up to MaxCalls further invocations after the first.  The locals *)
(* of an invocation are out of reach of the next one; here every variable     *)
(* keeps its last value across invocations, so that a read of a value the     *)
(* invocation did not write itself shows in the record it returns.            *)

MaxCalls == 2

CallTexts ==
  { <<"">>,
    <<"JOHN DOE", "jd@acme.io">>,
    <<"John Doe", "EXPERIENCE", "Dev | Acme", "~ Built X">>,
    Sample }

Call ==
  /\ pc = "done"
  /\ calls < MaxCalls
  /\ resumeText' \in CallTexts
  /\ calls' = calls + 1
  /\ returned' = returned \cup {<<resumeText, result>>}
  /\ result' = NullRef
  /\ src' = NoLines
  /\ ai' = "no"
  /\ pc' = "parse"
  /\ UNCHANGED <<openAIApiKey, contactInfo, headerEndIndex, i, currentSection, sectionContent, sections,
                 sectionIndex, experiences, currentExp, currentBullets, educations>>

NextCalls == Next \/ Call

InitCalls == resumeText \in CallTexts /\ Start

SpecCalls == InitCalls /\ [][NextCalls]_vars

(* SpecContact: a name line and up to MaxContactLines lines of contact data.  *)

MaxContactLines == 3

DashedPhone == "555-123-4567"

PhoneLines == {DashedPhone, "+1 555-123-4567", "(555) 123-4567"}

ContactVocabulary == PhoneLines \cup {"john@x.com", "EXPERIENCE"}

ContactTexts ==
  {Sample} \cup {<<"John Doe">> \o body : body \in BoundedSeq(ContactVocabulary, MaxContactLines)}

InitContact == resumeText \in ContactTexts /\ Start

SpecContact == InitContact /\ [][Next]_vars

(* SpecEntries: a work-experience header and up to MaxEntryLines lines, each  *)
(* an entry header in one of four formats, a date line or a bullet.           *)

MaxEntryLines == 3

EmDashLine == "T-Mobile & SEO Manager / Website Growth"

PipeLine == "Senior Engineer | Tech Co | 2020 - Present"

DashLine == "Acme Corp - Engineer"

DashDateLine == "Junior Developer - Previous Company - 2016 - 2018"

EntryHeaders == {PipeLine, DashLine, DashDateLine}

EntryVocabulary == EntryHeaders \cup {EmDashLine, "2023 - Present", "~ Built X"}

EntryTexts ==
  {Sample} \cup {<<"John Doe", "EXPERIENCE">> \o body : body \in BoundedSeq(EntryVocabulary, MaxEntryLines)}

InitEntries == resumeText \in EntryTexts /\ Start

SpecEntries == InitEntries /\ [][Next]_vars

(* SpecPipe: a work-experience header and up to MaxPipeLines lines, each an   *)
(* entry header of three pipe-separated parts or a bullet.                    *)

MaxPipeLines == 3

\* the three-part lines, with the parts a reader sees in them
PipeEntries ==
  { [line |-> PipeLine, title |-> "Senior Engineer", company |-> "Tech Co",
     date |-> "2020 - Present"],
    [line |-> "Lead|Initech |  2019", title |-> "Lead", company |-> "Initech",
     date |-> "2019"] }

PipeLines == {p.line : p \in PipeEntries}

PipeTexts ==
  {Sample} \cup {<<"John Doe", "EXPERIENCE">> \o body :
                   body \in BoundedSeq(PipeLines \cup BulletLines, MaxPipeLines)}

InitPipe == resumeText \in PipeTexts /\ Start

SpecPipe == InitPipe /\ [][Next]_vars

(* SpecSkills: a skills header and up to MaxSkillLines lines 'Label: items'.  *)

MaxSkillLines == 3

SkillVocabulary == {"Languages: JS, Python", "Tools: Docker, AWS", "Cloud: aws, gcp", "7: Go"}

SkillTexts ==
  {Sample} \cup {<<"John Doe", "SKILLS">> \o body : body \in BoundedSeq(SkillVocabulary, MaxSkillLines)}

InitSkills == resumeText \in SkillTexts /\ Start

SpecSkills == InitSkills /\ [][Next]_vars

(* SpecCert: an education header and up to MaxCertLines lines about           *)
(* certificates.                                                              *)

MaxCertLines == 3

ProviderLine == "General Assembly & Web Development Immersive Certificate"

CertVocabulary == {ProviderLine, "2016", "Data Certificate 2019 - 2020", "State College"}

CertTexts ==
  {Sample} \cup {<<"John Doe", "EDUCATION">> \o body : body \in BoundedSeq(CertVocabulary, MaxCertLines)}

InitCert == resumeText \in CertTexts /\ Start

SpecCert == InitCert /\ [][Next]_vars

(* SpecSegments: a name line and up to MaxSegmentLines lines, each a contact  *)
(* line, a paragraph, a section header or an entry line.                      *)

MaxSegmentLines == 4

Paragraph == "Seasoned engineer with ten years of SaaS work"

SegmentHeaders == {"SUMMARY", "EXPERIENCE"}

SegmentVocabulary == SegmentHeaders \cup {"jd@acme.io", Paragraph, "Dev | Acme"}

SegmentTexts ==
  {Sample} \cup {<<"John Doe">> \o body : body \in BoundedSeq(SegmentVocabulary, MaxSegmentLines)}

InitSegments == resumeText \in SegmentTexts /\ Start

SpecSegments == InitSegments /\ [][Next]_vars

(* SpecAI: a text of up to MaxAILines lines after the name line, or a blank   *)
(* text, with or without an API key.                                          *)

MaxAILines == 2

ApiKeys == {NULL, "  ", "sk-test"}

AITexts ==
  BlankTexts \cup {Sample}
  \cup {<<"John Doe">> \o body : body \in BoundedSeq({"EXPERIENCE", "Dev | Acme", "~ Built X"}, MaxAILines)}

InitAI == resumeText \in AITexts /\ openAIApiKey \in ApiKeys /\ Entry

SpecAI == InitAI /\ [][Next]_vars

(* SpecUnits: a work-experience header and up to MaxUnits units after it, a   *)
(* unit being an entry header in pipe format, one in dash format, the three   *)
(* lines of a company entry, a bullet, a stray short line or another header.  *)

MaxUnits == 3

CompanyUnit == <<"Initech", "Senior Engineer", "2020 - Present">>

StrayLine == "Berlin"

Units ==
  {<<"Dev | Acme">>, <<DashLine>>, CompanyUnit, <<"~ Built X">>, <<StrayLine>>, <<"EXPERIENCE">>}

UnitTexts ==
  {Sample} \cup {<<"John Doe", "EXPERIENCE">> \o Flatten(us) : us \in BoundedSeq(Units, MaxUnits)}

InitUnits == resumeText \in UnitTexts /\ Start

SpecUnits == InitUnits /\ [][Next]_vars

(* SpecDash: a work-experience header and up to MaxDashLines lines, each an   *)
(* entry header of two parts around ' - ' or a bullet.                        *)

MaxDashLines == 2

\* the two-part lines, with the parts a reader sees in them
DashEntries ==
  { [line |-> DashLine, first |-> "Acme Corp", second |-> "Engineer"],
    [line |-> "Engineer - Acme Corp", first |-> "Engineer", second |-> "Acme Corp"],
    [line |-> "Senior Engineer - Lead Dev", first |-> "Senior Engineer", second |-> "Lead Dev"],
    [line |-> "Acme - Initech", first |-> "Acme", second |-> "Initech"],
    [line |-> "Initech  -  Beta", first |-> "Initech", second |-> "Beta"],
    [line |-> "Acme - Beta", first |-> "Acme", second |-> "Beta"] }

DashLines == {p.line : p \in DashEntries}

DashTexts ==
  {Sample} \cup {<<"John Doe", "EXPERIENCE">> \o body :
                   body \in BoundedSeq(DashLines \cup {"~ Built X"}, MaxDashLines)}

InitDash == resumeText \in DashTexts /\ Start

SpecDash == InitDash /\ [][Next]_vars

(* SpecDated: a work-experience header and up to MaxDatedLines lines, each an *)
(* entry header in pipe format with a date as one of its parts, or a bullet.  *)

MaxDatedLines == 2

\* the lines, with the date and the other parts a reader sees in them
DatedEntries ==
  { [line |-> "2020 - Present | Acme", date |-> "2020 - Present", others |-> {"Acme"}],
    [line |-> "Dev | 2020 - Present", date |-> "2020 - Present", others |-> {"Dev"}],
    [line |-> "Dev | Acme | 2020 - Present", date |-> "2020 - Present", others |-> {"Dev", "Acme"}],
    [line |-> "2020 - Present | Dev | Acme", date |-> "2020 - Present", others |-> {"Dev", "Acme"}],
    [line |-> "Dev | 2019 - 2020 | Acme", date |-> "2019 - 2020", others |-> {"Dev", "Acme"}] }

DatedTexts ==
  {Sample} \cup {<<"John Doe", "EXPERIENCE">> \o body :
                   body \in BoundedSeq({p.line : p \in DatedEntries} \cup {"~ Built X"}, MaxDatedLines)}

InitDated == resumeText \in DatedTexts /\ Start

SpecDated == InitDated /\ [][Next]_vars

(* SpecFallback: a work-experience header and up to MaxFallbackLines lines    *)
(* after it: blank lines, bullets, stray lines, entry headers, block headers. *)

MaxFallbackLines == 3

FallbackVocabulary == {"", "~ Built X", StrayLine, "Dev | Acme", "EXPERIENCE"}

FallbackTexts ==
  {Sample} \cup {<<"John Doe", "EXPERIENCE">> \o body :
                   body \in BoundedSeq(FallbackVocabulary, MaxFallbackLines)}

InitFallback == resumeText \in FallbackTexts /\ Start

SpecFallback == InitFallback /\ [][Next]_vars

(* SpecBullets: a work-experience header, an entry header and up to           *)
(* MaxBulletLines lines after it, each a bullet or another entry header.      *)

MaxBulletLines == 3

\* bullets: a glyph, a space and the text
BulletVocabulary == BulletLines \cup {"~ Go | Rust", "~ Cut cost - 20%"}

BulletTexts ==
  {Sample} \cup {<<"John Doe", "EXPERIENCE", "Dev | Acme">> \o body :
                   body \in BoundedSeq(BulletVocabulary \cup {DashLine}, MaxBulletLines)}

InitBullets == resumeText \in BulletTexts /\ Start

SpecBullets == InitBullets /\ [][Next]_vars

(* SpecLoops: a work-experience block of up to MaxLoopUnits units, or an      *)
(* education block of up to MaxLoopUnits units, a unit of the latter being    *)
(* the three lines of a school entry, a school, a certificate or a header;    *)
(* or one block of each.                                                     *)

MaxLoopUnits == 2

SchoolUnit == <<"State College", "B.S. Computer Science", "2016 - 2020">>

EduUnits == {SchoolUnit, <<"State College">>, <<"Data Certificate">>, <<"EDUCATION">>}

BothBlocks == <<"John Doe", "EXPERIENCE">> \o CompanyUnit \o <<"EDUCATION">> \o SchoolUnit

LoopTexts ==
  {Sample, BothBlocks}
  \cup {<<"John Doe", "EXPERIENCE">> \o Flatten(us) : us \in BoundedSeq(Units, MaxLoopUnits)}
  \cup {<<"John Doe", "EDUCATION">> \o Flatten(us) : us \in BoundedSeq(EduUnits, MaxLoopUnits)}

InitLoops == resumeText \in LoopTexts /\ Start

SpecLoops == InitLoops /\ [][Next]_vars

(* ------------------------------ properties ----------------------------- *)

Range(f) == {f[k] : k \in DOMAIN f}

\* the invocation has returned its record through lines 236-245
Succeeded == pc = "done" /\ "success" \in DOMAIN result /\ result.success = TRUE

ExperienceLines(e) == e.src.fields \cup Range(e.src.bullets)

EducationLines(e) == {e.src.school, e.src.degree, e.src.date, e.src.certificate} \ {None}

WorkLines == UNION {ExperienceLines(e) : e \in Range(result.workExperience)}

SchoolLines == UNION {EducationLines(e) : e \in Range(result.education)}

\* the indices of the non-blank lines that are neither a section header nor a divider
ContentLines ==
  {n \in 0..(Len(resumeText) - 1) :
     /\ trimmedLines[n + 1] # ""
     /\ MatchedSectionKey(trimmedLines[n + 1]) = NULL
     /\ ~isSectionHeader(trimmedLines[n + 1])
     /\ ~isDivider(trimmedLines[n + 1])}

\* C1: in a returned record every non-blank line of the text that is neither a
\* section header nor a divider has a destination: a contact field, the summary,
\* an Experience field or bullet, an Education field, the skills, or otherSections.
NoLoss ==
  Succeeded =>
    ContentLines \subseteq
      (src.contact \cup src.summary \cup src.skills \cup src.other \cup WorkLines \cup SchoolLines)

\* C2: in a returned record no line of the text has two destinations; in particular
\* a line read into a contact field is in no destination of the segmenter.
NoDuplication ==
  Succeeded =>
    LET classes == <<src.contact, src.summary, src.skills, src.other, WorkLines, SchoolLines>>
    IN \A a, b \in DOMAIN classes : a # b => classes[a] \cap classes[b] = {}

\* C3: for a text that is not blank the invocation ends with success = true.
NonBlankSucceeds ==
  (pc = "done" /\ ~IsEmptyText) => ("success" \in DOMAIN result /\ result.success = TRUE)

\* a location line without a place word has been through lines 734-745
NonBlankSucceedsWitness ==
  /\ Succeeded
  /\ \E e \in Range(result.workExperience) : "location" \in DOMAIN e /\ e.location = "remote"

\* C4: for a blank text the invocation ends with success = false and an error, and
\* no extractor has run.
EmptyFails ==
  (pc = "done" /\ IsEmptyText) =>
    /\ "success" \in DOMAIN result /\ result.success = FALSE
    /\ "error" \in DOMAIN result
    /\ contactInfo = NullRef /\ sections = NullRef

Increasing(f) == \A a, b \in DOMAIN f : a < b => f[a] < f[b]

Populated(x) == x # NULL /\ x # ""

\* C6: the degree of an entry and the certificate of an entry never come from the
\* same line of the text, the degree being that line and the certificate that line
\* with or without its date.
DegreeOrCertificate ==
  \A a, b \in DOMAIN educations :
    LET d == educations[a]
        c == educations[b]
    IN /\ Populated(d.degree) <=> d.src.degree # None
       /\ Populated(c.certificate) <=> c.src.certificate # None
       /\ Populated(d.degree) => d.degree = trimmedLines[d.src.degree + 1]
       /\ Populated(c.certificate) =>
            c.certificate \in {trimmedLines[c.src.certificate + 1],
                               Trim(RemoveFirst(DateRangeRe, trimmedLines[c.src.certificate + 1]))}
       /\ (Populated(d.degree) /\ Populated(c.certificate)) => d.src.degree # c.src.certificate

\* an entry with a degree and a certificate
DegreeOrCertificateWitness ==
  \E k \in DOMAIN educations :
    Populated(educations[k].degree) /\ Populated(educations[k].certificate)

\* C7: an invocation returns the record that every earlier invocation on the same
\* text returned.
Deterministic ==
  pc = "done" => \A p \in returned : p[1] = resumeText => p[2] = result

\* a text parsed again after another text
DeterministicWitness ==
  /\ Succeeded
  /\ Len(result.workExperience) > 0
  /\ \E p, r \in returned : p[1] = resumeText /\ r[1] # resumeText /\ "success" \in DOMAIN r[2]

\* C8: in a returned record a line that is neither a section header nor a divider
\* and that no extractor kept is an element of otherSections.
UnclassifiedToOther ==
  Succeeded =>
    \A n \in ContentLines \ (src.contact \cup src.summary \cup src.skills
                               \cup WorkLines \cup SchoolLines) :
      originalLines[n + 1] \in Range(result.otherSections)

\* the groups of a work-experience block: company, title, date, then bullets
RECURSIVE GroupsOf(_)
GroupsOf(lines) ==
  IF Len(lines) < 3 THEN <<>>
  ELSE LET rest == SubSeq(lines, 4, Len(lines))
           nb   == SetMax({k \in 0..Len(rest) : \A j \in 1..k : rest[j] \in BulletLines})
       IN << [company |-> lines[1], title |-> lines[2], date |-> lines[3],
              bullets |-> [k \in 1..nb |-> SubSeq(rest[k], 3, Len(rest[k]))]] >>
          \o GroupsOf(SubSeq(rest, nb + 1, Len(rest)))

\* C9: a work-experience block of groups, each a company line, a title line, a
\* date line and bullets, gives one Experience per group, in order, with that
\* company, title, date and bullets.
OneExperiencePerGroup ==
  (Succeeded /\ resumeText # Sample) =>
    [k \in DOMAIN result.workExperience |->
       [company |-> result.workExperience[k].company,
        title   |-> result.workExperience[k].title,
        date    |-> result.workExperience[k].date,
        bullets |-> result.workExperience[k].bullets]]
      = GroupsOf(SubSeq(resumeText, 3, Len(resumeText)))

SchoolNames == {"MIT", "State College"}

\* C10: an education block of a school line, a degree line and a date line gives
\* one entry with that school, degree and date.
SchoolDegreeDate ==
  (/\ Succeeded
   /\ Len(resumeText) = 5
   /\ resumeText[2] = "EDUCATION"
   /\ resumeText[3] \in SchoolNames
   /\ resumeText[4] = "B.S. Computer Science"
   /\ resumeText[5] = "2016 - 2020") =>
    /\ Len(result.education) = 1
    /\ result.education[1].school = resumeText[3]
    /\ result.education[1].degree = resumeText[4]
    /\ result.education[1].date = resumeText[5]

\* the first five non-blank lines, which extractContactInfo joins
HeaderLines == SubSeq(FilterNonEmpty(trimmedLines), 1, Min(5, Len(FilterNonEmpty(trimmedLines))))

\* C11: a phone number of the form NNN-NNN-NNNN that is the only phone number in
\* the first five non-blank lines is returned as contactInfo.phone.
DashedPhoneExtracted ==
  (/\ Succeeded
   /\ \E k \in DOMAIN HeaderLines : HeaderLines[k] = DashedPhone
   /\ Cardinality({k \in DOMAIN HeaderLines : HeaderLines[k] \in PhoneLines}) = 1) =>
    result.contactInfo.phone = DashedPhone

\* C12: a work-experience block of the line 'T-Mobile <em dash> SEO Manager /
\* Website Growth', a date line and bullets gives a first Experience with company
\* 'T-Mobile', a title containing 'SEO Manager', and those bullets.
EmDashEntry ==
  (/\ Succeeded
   /\ Len(resumeText) >= 5
   /\ resumeText[2] = "EXPERIENCE"
   /\ resumeText[3] = EmDashLine
   /\ resumeText[4] = "2023 - Present"
   /\ \A k \in 5..Len(resumeText) : resumeText[k] = "~ Built X") =>
    /\ Len(result.workExperience) >= 1
    /\ result.workExperience[1].company = "T-Mobile"
    /\ Includes(result.workExperience[1].title, "SEO Manager")
    /\ result.workExperience[1].bullets = [k \in 1..(Len(resumeText) - 4) |-> "Built X"]

\* the lines (counted from 1) of the text that are entry headers in pipe or dash format
HeaderRows == {k \in 3..Len(resumeText) : resumeText[k] \in EntryHeaders}

\* the j-th of them
HeaderRow(j) == CHOOSE k \in HeaderRows : Cardinality({h \in HeaderRows : h < k}) = j - 1

\* the bullet lines (counted from 0) after the j-th header and before the next one
BulletsUnder(j) ==
  {k - 1 : k \in {r \in 3..Len(resumeText) :
                    /\ r > HeaderRow(j)
                    /\ resumeText[r] \notin EntryHeaders
                    /\ \A h \in HeaderRows : h > HeaderRow(j) => r < h}}

\* C18: in a work-experience block of entry headers in pipe or dash format, with or
\* without a date range in them, and bullets, there is one Experience per header, and
\* the bullets of each are the bullet lines under its header.
OneExperiencePerHeader ==
  (/\ Succeeded
   /\ Len(resumeText) >= 3
   /\ resumeText[2] = "EXPERIENCE"
   /\ resumeText[3] \in EntryHeaders
   /\ \A k \in 3..Len(resumeText) : resumeText[k] \in EntryHeaders \cup {"~ Built X"}) =>
    /\ Len(result.workExperience) = Cardinality(HeaderRows)
    /\ \A j \in DOMAIN result.workExperience :
         /\ result.workExperience[j].src.first = HeaderRow(j) - 1
         /\ Range(result.workExperience[j].src.bullets) = BulletsUnder(j)
         /\ Len(result.workExperience[j].bullets) = Cardinality(BulletsUnder(j))

\* the lines (counted from 1) after the three-part line k up to the next such line
RowsUnder(k) ==
  {r \in (k + 1)..Len(resumeText) : \A h \in (k + 1)..r : resumeText[h] \in BulletLines}

CategorizedSkills ==
  (/\ Succeeded
   /\ Len(resumeText) >= 3
   /\ resumeText[2] = "SKILLS"
   /\ \A a, b \in 3..Len(resumeText) : a # b => resumeText[a] # resumeText[b]
   /\ \E k \in 3..Len(resumeText) : Test(CategoryRe, resumeText[k])) =>
    result.skills = JoinWith(SubSeq(resumeText, 3, Len(resumeText)), "\n")

\* C15: an education block of the line 'General Assembly <em dash> Web Development
\* Immersive Certificate' and the line '2016' gives one entry with no school, no
\* degree, the certificate 'Web Development Immersive Certificate' and the date '2016'.
ProviderCertificate ==
  (Succeeded /\ resumeText = <<"John Doe", "EDUCATION", ProviderLine, "2016">>) =>
    /\ Len(result.education) = 1
    /\ result.education[1].school = ""
    /\ result.education[1].degree = ""
    /\ result.education[1].certificate = "Web Development Immersive Certificate"
    /\ result.education[1].date = "2016"

\* C16: a bullet line that opens the first work-experience block, with no Experience
\* open or completed before it, is an element of otherSections and is in no Experience.
OrphanBulletKept ==
  (/\ Succeeded
   /\ Len(resumeText) >= 3
   /\ resumeText[2] = "EXPERIENCE"
   /\ resumeText[3] = "~ Built X") =>
    /\ originalLines[3] \in Range(result.otherSections)
    /\ 2 \notin WorkLines

\* the lines (counted from 1) after the name line that are section headers
SegmentRows == {k \in 2..Len(resumeText) : resumeText[k] \in SegmentHeaders}

\* C17: a paragraph between the contact lines and the first section header, in a text
\* with no summary header, is in the returned personalStatement.
ParagraphCaptured ==
  (/\ Succeeded
   /\ resumeText # Sample
   /\ SegmentRows # {}
   /\ \A k \in 2..Len(resumeText) : resumeText[k] # "SUMMARY"
   /\ \A k \in 2..(SetMin(SegmentRows) - 1) : resumeText[k] \in {"jd@acme.io", Paragraph}
   /\ \E k \in 2..(SetMin(SegmentRows) - 1) : resumeText[k] = Paragraph) =>
    /\ result.personalStatement # NULL
    /\ Includes(result.personalStatement, Paragraph)

\* the lines after the header of line k up to the next header
LinesUnder(k) ==
  LET last == SetMin({h \in SegmentRows : h > k} \cup {Len(resumeText) + 1}) - 1
  IN SubSeq(resumeText, k + 1, last)

\* C20: every section header after the name line opens a block made of the lines up
\* to the next header: a work-experience header a raw block of workExperience, and
\* the only summary header of a text the personalStatement.
HeaderOpensBlock ==
  (Succeeded /\ resumeText # Sample) =>
    \A k \in SegmentRows :
      LinesUnder(k) # <<>> =>
        /\ resumeText[k] = "EXPERIENCE" =>
             \E b \in Range(sections.workExperience) : Strings(b) = LinesUnder(k)
        /\ (resumeText[k] = "SUMMARY" /\ \A h \in SegmentRows \ {k} : resumeText[h] # "SUMMARY") =>
             result.personalStatement = JoinWith(LinesUnder(k), "\n")

\* C19: parseResumeContentWithAI is called when, and only when, the text is not
\* blank and a key is given; when that call throws, the invocation goes on with the
\* rules and returns their record, with success = true; for a blank text there is
\* no call.
AIFallback ==
  /\ IsEmptyText => ai = "no"
  /\ pc # "parse" => (ai # "no" <=> (keyGiven(openAIApiKey) /\ ~IsEmptyText))
  /\ (pc = "done" /\ ai = "threw") =>
       /\ "success" \in DOMAIN result /\ result.success = TRUE
       /\ "error" \notin DOMAIN result
       /\ result.contactInfo = extractContactInfo(FilterNonEmpty(trimmedLines))
       /\ result.workExperience = experiences
       /\ result.rawText = resumeText
  /\ (pc = "done" /\ ai = "returned") => (result.success = TRUE /\ contactInfo = NullRef)

\* the rules have parsed a text after a call that threw
AIFallbackWitness ==
  /\ pc = "done"
  /\ ai = "threw"
  /\ result.success = TRUE
  /\ Len(result.workExperience) > 0

\* the lines (counted from 0) the loop of line 368 has been through
ScannedLines == (headerEndIndex + 1)..(i - 1)

\* the test the speculative capture makes of line n
Capturable(n) ==
  /\ Len(trimmedLines[n + 1]) > MinSummaryLen
  /\ ~isDate(trimmedLines[n + 1])
  /\ ~isDivider(trimmedLines[n + 1])
  /\ n < headerEndIndex + SummaryWindow

\* C21: while no block is open, the lines appended to the summary are longer than 8
\* characters, not date-like, no dividers and within 30 lines of the header region,
\* so no date-like line is in personalStatement; and every other non-blank line
\* that is neither a header nor a divider is in otherSections.
SpeculativeCapture ==
  (pc = "sections" /\ currentSection = NULL) =>
    /\ \A n \in src.summary : Capturable(n)
    /\ \A n \in ScannedLines :
         (/\ trimmedLines[n + 1] # ""
          /\ ~isDivider(trimmedLines[n + 1])
          /\ MatchedSectionKey(trimmedLines[n + 1]) = NULL
          /\ ~Capturable(n)) => n \in src.other

\* the lines (counted from 1) that are the section header h
RowsOf(h) == {k \in SegmentRows : resumeText[k] = h}

\* the blocks of lines under the occurrences of the header h that have lines, in order
RECURSIVE BlocksFrom(_, _)
BlocksFrom(h, k) ==
  IF k > Len(resumeText) THEN <<>>
  ELSE IF resumeText[k] = h /\ LinesUnder(k) # <<>>
  THEN <<LinesUnder(k)>> \o BlocksFrom(h, k + 1)
  ELSE BlocksFrom(h, k + 1)

\* C22: when the summary header occurs more than once, the returned
\* personalStatement is the content of the block under its last occurrence, and
\* nothing when that block has no line; the work-experience headers give one raw
\* block per occurrence that has lines, in the order of the text.
LastBlockWins ==
  (Succeeded /\ resumeText # Sample) =>
    /\ Cardinality(RowsOf("SUMMARY")) > 1 =>
         IF LinesUnder(SetMax(RowsOf("SUMMARY"))) = <<>>
         THEN result.personalStatement \in {NULL, ""}
         ELSE result.personalStatement = JoinWith(LinesUnder(SetMax(RowsOf("SUMMARY"))), "\n")
    /\ [k \in DOMAIN sections.workExperience |-> Strings(sections.workExperience[k])]
         = BlocksFrom("EXPERIENCE", 2)

\* the open Experience as it is pushed
Closed(exp, bullets) == [exp EXCEPT !.bullets = Strings(bullets), !.src.bullets = Ns(bullets)]

\* a step of the line loop that opens an Experience
Opens ==
  /\ pc = "workLines"
  /\ currentExp' # NullRef
  /\ (currentExp = NullRef \/ currentExp'.src.first # currentExp.src.first)

\* a step that opens an Experience, or ends the block, pushes the open Experience,
\* if any, with the bullets collected for it
PushedBeforeOpen ==
  /\ Opens =>
       /\ experiences' = IF currentExp = NullRef THEN experiences
                         ELSE Append(experiences, Closed(currentExp, currentBullets))
       /\ currentBullets' = <<>>
  /\ (pc = "workLines" /\ pc' = "workSection" /\ currentExp # NullRef) =>
       experiences' = Append(experiences, Closed(currentExp, currentBullets))

\* the Experiences of the list are in opening order, each once, and the bullets of
\* each come from lines after the line that opened it
OpenedOnce ==
  /\ Increasing([k \in DOMAIN experiences |-> experiences[k].src.first])
  /\ \A e \in Range(experiences) : \A b \in Range(e.src.bullets) : b > e.src.first
  /\ Succeeded => result.workExperience = experiences

\* C23: when a new entry is detected the open Experience, if any, is pushed with the
\* bullets collected for it before the new one is opened, and at the end of the block
\* the open Experience is pushed; so every Experience opened is in the output once,
\* in opening order, and no bullet is in an Experience opened after the bullet's line.
ExperiencesPushed == [][PushedBeforeOpen]_vars /\ []OpenedOnce

\* an Experience without bullets pushed when a company entry is detected after it,
\* and the company entry pushed with its bullet at the end of the block
ExperiencesPushedWitness ==
  /\ Succeeded
  /\ Len(result.workExperience) = 2
  /\ result.workExperience[1].bullets = <<>>
  /\ result.workExperience[2].company = "Initech"
  /\ result.workExperience[2].bullets = <<"Built X">>

\* the block the line loop is in, as its non-blank trimmed lines
BlockLines == AllLines(sections.workExperience[sectionIndex + 1])

\* line k of the block is neither in pipe format nor in dash format
Bare(k) == ~Includes(BlockLines[k + 1], "|") /\ ~Includes(BlockLines[k + 1], " - ")

\* the lookahead from line k of the block: the next line is a longer line that is
\* neither a bullet nor a date, and the line after it carries a location or a date
Lookahead(k) ==
  /\ k + 2 < Len(BlockLines)
  /\ Len(BlockLines[k + 2]) > Len(BlockLines[k + 1])
  /\ ~StartsLikeBullet(BlockLines[k + 2])
  /\ ~isDate(BlockLines[k + 2])
  /\ hasLocationDatePattern(BlockLines[k + 3])

\* C24: a line that is neither in pipe format nor in dash format opens an Experience
\* only if the lookahead from it succeeds, whether or not an Experience is open.
LookaheadRequired == [][(Opens /\ Bare(i)) => Lookahead(i)]_vars

\* the part matches the job-title keyword set
Titled(part) == Test(jobTitleWords, part)

\* the company and the title of e are those the rule gives for the parts a and b
DashRule(e, a, b) ==
  /\ (Titled(a) /\ ~Titled(b)) => (e.title = a /\ e.company = b)
  /\ (~Titled(a) /\ Titled(b)) => (e.company = a /\ e.title = b)
  /\ (Titled(a) = Titled(b) /\ Len(a) < Len(b)) => (e.company = a /\ e.title = b)
  /\ (Titled(a) = Titled(b) /\ Len(b) < Len(a)) => (e.company = b /\ e.title = a)
  /\ {e.company, e.title} = {a, b}
  /\ e.company # e.title
  /\ e.company # "" /\ e.title # ""

\* C25: a line of two parts around ' - ' opens an Experience in which, if exactly one
\* part matches the job-title keywords, that part is the title and the other the
\* company, and, if both or neither match, the strictly shorter part is the company
\* and the other the title; company and title are the two parts, and neither is empty.
DashDisambiguation ==
  (Succeeded /\ resumeText # Sample) =>
    \A k \in 3..Len(resumeText) : \A p \in DashEntries :
      resumeText[k] = p.line =>
        \E j \in DOMAIN result.workExperience :
          /\ result.workExperience[j].src.first = k - 1
          /\ DashRule(result.workExperience[j], p.first, p.second)

\* both parts match the keywords and the second, the shorter one, is the company;
\* neither matches and the second, the shorter one after the split, is the company
DashDisambiguationWitness ==
  /\ Succeeded
  /\ Len(result.workExperience) = 2
  /\ result.workExperience[1].company = "Lead Dev"
  /\ result.workExperience[1].title = "Senior Engineer"
  /\ result.workExperience[2].company = "Beta"
  /\ result.workExperience[2].title = "Initech"

\* C26: a pipe-format line of two, three or more parts, one of them date-like, opens
\* an Experience whose date is that part, whatever its position, and whose title and
\* company are among the other parts.
DatePartReassigned ==
  (Succeeded /\ resumeText # Sample) =>
    \A k \in 3..Len(resumeText) : \A p \in DatedEntries :
      resumeText[k] = p.line =>
        \E j \in DOMAIN result.workExperience :
          LET e == result.workExperience[j]
          IN /\ e.src.first = k - 1
             /\ e.date = p.date
             /\ e.title \in p.others \cup {""}
             /\ e.company \in p.others \cup {""}

\* the lines (counted from 1) of the work-experience block under the header of line k
BlockRows(k) ==
  {r \in (k + 1)..Len(resumeText) : \A h \in (k + 1)..r : resumeText[h] # "EXPERIENCE"}

\* those that start a paragraph: a non-blank line after the header or after a blank line
ParagraphStarts(k) ==
  {r \in BlockRows(k) : resumeText[r] # "" /\ (r = k + 1 \/ resumeText[r - 1] = "")}

\* the Experiences of the main pass and the entries of the fallback pass that start
\* in the block under the header of line k
MainEntries(k) ==
  {e \in Range(result.workExperience) :
     "location" \in DOMAIN e /\ (e.src.first + 1) \in BlockRows(k)}

FallbackStarts(k) ==
  {e.src.first + 1 : e \in {x \in Range(result.workExperience) :
                              "location" \notin DOMAIN x /\ (x.src.first + 1) \in BlockRows(k)}}

\* C27: for every work-experience block that has lines and in which the main pass
\* opens no Experience, the fallback gives one entry per blank-line-separated
\* paragraph of the block, whatever the other blocks of the text gave.
FallbackPerBlock ==
  (Succeeded /\ resumeText # Sample) =>
    \A k \in 2..Len(resumeText) :
      (/\ resumeText[k] = "EXPERIENCE"
       /\ ParagraphStarts(k) # {}
       /\ MainEntries(k) = {}) => FallbackStarts(k) = ParagraphStarts(k)

\* the line loop is at a line that begins with a bullet glyph, an Experience being open
AtBullet ==
  /\ pc = "workLines"
  /\ currentExp # NullRef
  /\ i < Len(BlockLines)
  /\ BlockLines[i + 1] \in BulletVocabulary

\* C28: while an Experience is open, a line that begins with a bullet glyph is
\* appended, without its marker, to the bullets of that Experience, which stays open,
\* and no Experience is pushed or opened, whatever the text of the bullet holds.
BulletKeepsOpen ==
  [][AtBullet =>
       /\ currentExp' = currentExp
       /\ experiences' = experiences
       /\ Strings(currentBullets') =
            Append(Strings(currentBullets), SubSeq(BlockLines[i + 1], 3, Len(BlockLines[i + 1])))]_vars

\* C29: every Experience of the returned workExperience has the five fields company,
\* title, date, location and bullets, and its bullets are non-empty strings without
\* a bullet marker.
FiveFields ==
  Succeeded =>
    \A e \in Range(result.workExperience) :
      /\ {"company", "title", "date", "location", "bullets"} \subseteq DOMAIN e
      /\ \A b \in DOMAIN e.bullets :
           e.bullets[b] # "" /\ ~TestStart(BulletStartRe, e.bullets[b])

\* the education block the line loop is in, as its non-blank trimmed lines
SchoolBlockLines == AllLines(sections.education[sectionIndex + 1])

\* the indices the iteration about to run reads
ReadsNow ==
  IF pc = "workLines"
  THEN WorkReads(BlockLines, i, Detect(BlockLines[i + 1]),
                 isBulletLine(BlockLines[i + 1],
                              KeptLines(sections.workExperience[sectionIndex + 1])[i + 1].s),
                 currentExp, currentBullets)
  ELSE EducationReads(SchoolBlockLines, i)

\* an iteration of a line loop moves the index forward by 1 to 3 lines, not beyond
\* the end of the block, and reads no line more than 2 lines after the current one
\* and none after the last line of the block
Advances(lines) ==
  i < Len(lines) =>
    /\ i < i' /\ i' <= i + 3 /\ i' <= Len(lines)
    /\ \A r \in ReadsNow : i <= r /\ r <= i + 2 /\ r < Len(lines)

LoopStep ==
  /\ pc = "workLines" => Advances(BlockLines)
  /\ pc = "educationLines" => Advances(SchoolBlockLines)

\* how far the invocation is: the statement it is at, the block and the line of the
\* loop that is running
Stage ==
  CASE pc = "parse" -> 0
    [] pc = "header" -> 1
    [] pc = "sections" -> 2
    [] pc \in {"workSection", "workLines"} -> 3
    [] pc \in {"educationSection", "educationLines"} -> 4
    [] pc = "skills" -> 5
    [] pc = "done" -> 6

Position ==
  << Stage,
     IF Stage \in {3, 4} THEN sectionIndex ELSE 0,
     IF pc \in {"workLines", "educationLines"} THEN 1 ELSE 0,
     IF pc \in {"sections", "workLines", "educationLines"} THEN i ELSE 0 >>

\* p is before q, component by component from the first
Before(p, q) ==
  \E k \in DOMAIN p : p[k] < q[k] /\ \A j \in 1..(k - 1) : p[j] = q[j]

\* the positions are bounded by the length of the text
Bounded == \A k \in DOMAIN Position : Position[k] >= 0 /\ Position[k] <= Len(resumeText) + 6

\* C30: every iteration of the work-experience and education line loops moves the
\* line index forward, by 1 to 3 lines, and reads at most 2 lines after the current
\* line and none after the end of the block; every step of the invocation moves it
\* forward in an order bounded by the length of the text, so the invocation ends
\* and no block line is the current line of two iterations.
LoopsProgress == [][LoopStep /\ Before(Position, Position') /\ Bounded']_vars

\* both loops have made an iteration of three lines, and the invocation has ended
LoopsProgressWitness ==
  /\ Succeeded
  /\ resumeText = BothBlocks
  /\ result.workExperience[1].src.fields = {2, 3, 4}
  /\ result.education[1].src.school = 6
  /\ result.education[1].src.date = 8

====
